---- MODULE Spec2Model ----
(***************************************************************************)
(* Model of the scanner's probe engine (tools/scanner/tester.py) and of    *)
(* the search orchestration that drives it (tools/scanner/grid_search.py,  *)
(* tools/scanner/config_generator.py).                                     *)
(*                                                                         *)
(* Tasks are asyncio coroutines on one event loop: a task runs without     *)
(* interruption from one await to the next, so each action below is one    *)
(* such uninterrupted stretch of code.                                     *)
(***************************************************************************)
EXTENDS Integers, Sequences, FiniteSets, TLC

\* ------------------------------------------------------------- bounds
MaxDocs == 3    \* documents handed to a run_batch call made on its own: 0..MaxDocs
MaxConc == 2    \* concurrency limits explored: up to MaxConc
PoolSize == 2   \* size of the rotating port pool (10000 in tester.py:49), scaled
MaxValues == 1  \* candidate values kept per dimension of PARAM_SPACE, scaled
MaxCalls == 15   \* sequential _next_port calls followed from one counter value

\* ---------------------------------------------------------- constants
BASE_PORT == 20000
SOCKS_PORT == 10808
TOP_N == 3
TOTAL_PHASES == 3
PORT_POOL == 10000

Latencies == {0}   \* int(elapsed * 1000) of a connectivity request: 0 at the least
Speeds == {8}          \* round(len(data) * 8 / (elapsed * 1e6), 2)

Ports == BASE_PORT .. (BASE_PORT + PoolSize - 1)

VARIABLES
    concurrency,    \* the concurrency argument
    measure_speed,  \* the measure_speed argument
    param_groups,   \* the search's param_groups argument
    protocol,       \* config["protocol"] of the search's base config
    values_kept,    \* how many of each dimension's candidate values the run
                    \* is scaled to
    on_phase,       \* whether the search was given an on_phase callback
    tests,          \* documents of every probe task created so far
    kind,           \* kind[i]: "batch", or the phase that created the task
    pc,             \* position of each probe task
    port,           \* port acquired by each probe (0: none yet)
    child,          \* xray child of each probe: none / running / exited
    result,         \* TestResult under construction in test_single
    port_counter,   \* module global _port_counter
    files,          \* temp dir: port -> task whose config the file holds (0: no file)
    sem,            \* value of run_batch's asyncio.Semaphore
    results,        \* run_batch's shared result list
    completed,      \* run_batch's completed counter
    total,          \* run_batch's total = len(tests)
    first,          \* number of tasks created before the current batch
    calls,          \* on_result invocations observed so far
    batch,          \* run_batch: running / returned / raised
    phase,          \* smart_search: none / entry / baseline / sweep / combine /
                    \* returned / raised
    all_results,    \* smart_search's all_results
    sweep_results,  \* smart_search's sweep_results
    winners,        \* smart_search's winners, in insertion order
    phase_calls,    \* on_phase invocations observed so far
    grid,           \* cases returned by a generator called on its own
    base_config,    \* the config dict handed to build_xray_json
    document,       \* the dict build_xray_json returned
    events,         \* what one probe did to its surroundings, in order
    returncode,     \* proc.returncode of that probe's child: <<>> is None
    proxy           \* port of the SOCKS endpoint that probe's requests go through
                    \* (0: no connector yet)

inputVars == <<concurrency, measure_speed, param_groups, protocol, values_kept, on_phase>>
taskVars == <<tests, kind, pc, port, child, result>>
globalVars == <<port_counter, files>>
batchVars == <<sem, results, completed, total, first, calls, batch>>
searchVars == <<phase, all_results, sweep_results, winners, phase_calls, grid>>
detailVars == <<base_config, document, events, returncode, proxy>>
vars == <<inputVars, taskVars, globalVars, batchVars, searchVars, detailVars>>

Tasks == 1 .. Len(tests)
BatchTasks == (first + 1) .. (first + total)

Min(a, b) == IF a < b THEN a ELSE b

RECURSIVE Concat(_)
Concat(ss) == IF ss = <<>> THEN <<>> ELSE Head(ss) \o Concat(Tail(ss))

\* ------------------------------------- parameter space (config_generator.py)
PARAM_SPACE ==
    [fragment_length |-> <<"1-1", "10-20", "50-100", "100-200", "200-400", "517-517">>,
     fragment_interval |-> <<"1-1", "2-5", "5-10", "10-20", "20-50">>,
     fragment_packets |-> <<"tlshello", "1-2", "1-3", "1-5">>,
     fingerprint |-> <<"chrome", "firefox", "safari", "edge", "qq", "random",
                       "ios", "android">>,
     alpn |-> << <<"h2">>, <<"http/1.1">>, <<"h2", "http/1.1">> >>,
     ech_enabled |-> <<TRUE, FALSE>>,
     ech_dns |-> <<TRUE, FALSE>>,
     tcp_no_delay |-> <<TRUE, FALSE>>,
     tcp_fast_open |-> <<TRUE, FALSE>>,
     mptcp |-> <<TRUE, FALSE>>,
     tcp_keep_alive |-> <<0, 15, 30, 60>>,
     domain_strategy |-> <<"AsIs", "UseIP", "UseIPv4">>,
     transport |-> <<"ws", "xhttp", "tcp", "grpc", "h2">>,
     xhttp_mode |-> <<"auto", "packet-up", "stream-up">>]

PARAM_GROUPS ==
    [fragment_length |-> <<"fragment_length">>,
     fragment_interval |-> <<"fragment_interval">>,
     fragment_packets |-> <<"fragment_packets">>,
     fingerprint |-> <<"fingerprint">>,
     alpn |-> <<"alpn">>,
     ech |-> <<"ech_enabled", "ech_dns">>,
     socket_options |-> <<"tcp_no_delay", "tcp_fast_open", "mptcp",
                          "tcp_keep_alive", "domain_strategy">>,
     transport |-> <<"transport", "xhttp_mode">>]

\* PARAM_GROUPS.get(group_name, [group_name])
GroupKeys(g) == IF g \in DOMAIN PARAM_GROUPS THEN PARAM_GROUPS[g] ELSE <<g>>

\* PARAM_SPACE[key], of which a run tries the first values_kept values
Values(key) == SubSeq(PARAM_SPACE[key], 1, Min(values_kept, Len(PARAM_SPACE[key])))

\* A test case: (overrides_dict, description_string).  A dict is a function
\* from its keys; a description is the sequence of its "key=value" parts.
Case(ov, desc) == [overrides |-> ov, description |-> desc]

BaselineCase == Case(<<>>, << <<"baseline", "no changes">> >>)

\* Mutant: only the first value of a dimension is emitted.
KeyCases_FirstOnly(key) ==
    IF key \in DOMAIN PARAM_SPACE
    THEN <<Case(key :> Values(key)[1], << <<key, Values(key)[1]>> >>)>>
    ELSE <<>>

\* Mutant: a key outside the parameter space is tried once, switched on.
KeyCases_UnknownOnce(key) ==
    IF key \in DOMAIN PARAM_SPACE
    THEN [n \in 1 .. Len(Values(key)) |->
             Case(key :> Values(key)[n], << <<key, Values(key)[n]>> >>)]
    ELSE <<Case(key :> TRUE, << <<key, TRUE>> >>)>>

\* for value in PARAM_SPACE[key]: tests.append(({key: value}, f"{key}={value}"))
KeyCases(key) ==
    IF key \in DOMAIN PARAM_SPACE
    THEN [n \in 1 .. Len(Values(key)) |->
             Case(key :> Values(key)[n], << <<key, Values(key)[n]>> >>)]
    ELSE <<>>

GroupCases(g) == Concat([n \in 1 .. Len(GroupKeys(g)) |-> KeyCases(GroupKeys(g)[n])])

\* generate_smart_grid: the baseline, then one singleton case per value
generate_smart_grid(groups) ==
    <<BaselineCase>> \o Concat([n \in 1 .. Len(groups) |-> GroupCases(groups[n])])

\* The items of a dict, as a sequence
RECURSIVE Items(_)
Items(d) ==
    IF DOMAIN d = {} THEN <<>>
    ELSE LET k == CHOOSE x \in DOMAIN d : TRUE
         IN  << <<k, d[k]>> >> \o Items([x \in DOMAIN d \ {k} |-> d[x]])

\* Mutant: the product has no member.
Product_Empty(ls) == <<>>

\* itertools.product(*value_lists): the last list varies fastest
RECURSIVE Product(_)
Product(ls) ==
    IF ls = <<>> THEN << <<>> >>
    ELSE LET rest == Product(Tail(ls))
         IN  Concat([n \in 1 .. Len(Head(ls)) |->
                       [m \in 1 .. Len(rest) |-> <<Head(ls)[n]>> \o rest[m]]])

\* Mutant: a combination keeps the override set of its last member only.
Merge_Last(combo) == IF combo = <<>> THEN <<>> ELSE combo[Len(combo)]

\* merged.update(dim_overrides) for each member of a combination, and the
\* description parts in the same order
RECURSIVE Merge(_)
Merge(combo) ==
    IF combo = <<>> THEN <<>>
    ELSE combo[Len(combo)] @@ Merge(SubSeq(combo, 1, Len(combo) - 1))

\* generate_combination_grid(winners, top_n): the product of each group's
\* top_n winning override sets
generate_combination_grid(w, top_n) ==
    IF w = <<>> THEN <<>>
    ELSE LET tops == [n \in 1 .. Len(w) |->
                        [m \in 1 .. Min(top_n, Len(w[n].results)) |->
                            w[n].results[m][1]]]
             combos == Product(tops)
         IN  [n \in 1 .. Len(combos) |->
                Case(Merge(combos[n]),
                     Concat([m \in 1 .. Len(combos[n]) |-> Items(combos[n][m])]))]

\* The known dimension keys of the requested groups, in request order
KnownKeys(groups) ==
    SelectSeq(Concat([n \in 1 .. Len(groups) |-> GroupKeys(groups[n])]),
              LAMBDA k : k \in DOMAIN PARAM_SPACE)

\* dict(zip(all_keys, combo)): a key listed twice keeps its last value
RECURSIVE ZipDict(_, _)
ZipDict(keys, combo) ==
    IF keys = <<>> THEN <<>>
    ELSE (keys[Len(keys)] :> combo[Len(keys)])
            @@ ZipDict(SubSeq(keys, 1, Len(keys) - 1), combo)

\* The keys of that dict in insertion order: each key at its first place
RECURSIVE Distinct(_)
Distinct(keys) ==
    IF keys = <<>> THEN <<>>
    ELSE LET before == Distinct(SubSeq(keys, 1, Len(keys) - 1))
             k == keys[Len(keys)]
         IN  IF \E n \in 1 .. Len(before) : before[n] = k THEN before
             ELSE Append(before, k)

\* Mutant: full mode is given the sweep list of smart mode.
generate_full_grid_Sweep(groups) == generate_smart_grid(groups)

\* generate_full_grid: the product of the value lists of the known keys; with
\* no known key, the single case ({}, "baseline")
generate_full_grid(groups) ==
    LET keys == KnownKeys(groups)
        combos == Product([n \in 1 .. Len(keys) |-> Values(keys[n])])
    IN  IF keys = <<>> THEN <<Case(<<>>, << <<"baseline">> >>)>>
        ELSE [n \in 1 .. Len(combos) |->
                LET ov == ZipDict(keys, combos[n])
                IN  Case(ov, [m \in 1 .. Len(Distinct(keys)) |->
                                <<Distinct(keys)[m], ov[Distinct(keys)[m]]>>])]

\* ------------------------------------------- documents (build_xray_json)
\* The protocols build_xray_json has an outbound builder for
SupportedProtocols == {"vless", "vmess", "trojan", "shadowsocks"}

\* Mutant: only the document without overrides can be built.
Builds_OnlyBaseline(proto, ov) == proto \in SupportedProtocols /\ DOMAIN ov = {}

\* build_xray_json returns a document, unless the protocol is none of the
\* supported ones (ValueError); the builders read the overrides with .get and
\* `in` only, so no override set makes a build fail.
Builds(proto, ov) == proto \in SupportedProtocols

\* Every build_xray_json call of a `for overrides, desc in cases` loop returns
AllBuild(cases) == \A n \in 1 .. Len(cases) : Builds(protocol, cases[n].overrides)

\* --------------------------------------- document contents (config_generator)
\* Python's None, as the result of dict.get on a missing key
None == "None"

\* d.get(k, default)
Get(d, k, default) == IF k \in DOMAIN d THEN d[k] ELSE default

\* d[k] = v
Put(d, k, v) == (k :> v) @@ d

\* Truth value of a str or None
Truthy(v) == v # None /\ v # ""

\* v or default
Or(v, default) == IF Truthy(v) THEN v ELSE default

\* alpn_str.split(","), for the ALPN strings a URI carries
Split(s) ==
    CASE s = "h2" -> <<"h2">>
      [] s = "http/1.1" -> <<"http/1.1">>
      [] s = "h2,http/1.1" -> <<"h2", "http/1.1">>
      [] OTHER -> <<s>>

\* Mutant: any raw TCP option also switches tcpNoDelay on.
SetOption_AlsoNoDelay(sockopt, overrides, key, name) ==
    IF key \in DOMAIN overrides
    THEN Put(Put(sockopt, "tcpNoDelay", TRUE), name, overrides[key]) ELSE sockopt

\* Mutant: a raw TCP option is emitted only when its value is truthy.
SetOption_IfTruthy(sockopt, overrides, key, name) ==
    IF key \in DOMAIN overrides /\ overrides[key] \notin {FALSE, 0}
    THEN Put(sockopt, name, overrides[key]) ELSE sockopt

\* if key in overrides: sockopt[name] = overrides[key]
SetOption(sockopt, overrides, key, name) ==
    IF key \in DOMAIN overrides THEN Put(sockopt, name, overrides[key]) ELSE sockopt

\* Mutant: the fragment block holds only what was supplied.
FragmentBlock_Supplied(frag_pkt, frag_len, frag_int) ==
    (IF Truthy(frag_pkt) THEN "packets" :> frag_pkt ELSE <<>>)
    @@ (IF Truthy(frag_len) THEN "length" :> frag_len ELSE <<>>)
    @@ (IF Truthy(frag_int) THEN "interval" :> frag_int ELSE <<>>)

\* {"packets": frag_pkt or "tlshello", "length": frag_len or "100-200",
\*  "interval": frag_int or "10-20"}
FragmentBlock(frag_pkt, frag_len, frag_int) ==
    [packets |-> Or(frag_pkt, "tlshello"),
     length |-> Or(frag_len, "100-200"),
     interval |-> Or(frag_int, "10-20")]

\* _apply_sockopt(stream, overrides, config): cfg = config or {}
apply_sockopt(stream, overrides, cfg) ==
    LET frag_len == Get(overrides, "fragment_length", Get(cfg, "fragment_length", None))
        frag_int == Get(overrides, "fragment_interval", Get(cfg, "fragment_interval", None))
        frag_pkt == Get(overrides, "fragment_packets", Get(cfg, "fragment_packets", None))
        s0 == IF Truthy(frag_len) \/ Truthy(frag_int) \/ Truthy(frag_pkt)
              THEN "fragment" :> FragmentBlock(frag_pkt, frag_len, frag_int)
              ELSE <<>>
        s1 == SetOption(s0, overrides, "tcp_no_delay", "tcpNoDelay")
        s2 == SetOption(s1, overrides, "tcp_fast_open", "tcpFastOpen")
        s3 == SetOption(s2, overrides, "mptcp", "tcpMptcp")
        s4 == SetOption(s3, overrides, "tcp_keep_alive", "tcpKeepAliveInterval")
        sockopt == SetOption(s4, overrides, "domain_strategy", "domainStrategy")
    IN  IF DOMAIN sockopt # {} THEN Put(stream, "sockopt", sockopt) ELSE stream

\* The transport block of _build_stream_settings
TransportSettings(config, overrides, transport) ==
    LET host == Get(config, "host", None)
        mode == Get(overrides, "xhttp_mode", None)
    IN  CASE transport = "ws" ->
               "wsSettings" :> [path |-> Get(config, "path", "/"),
                                headers |-> IF Truthy(host) THEN "Host" :> host ELSE <<>>]
          [] transport = "grpc" ->
               "grpcSettings" :> [serviceName |-> Get(config, "path", "")]
          [] transport = "h2" ->
               "httpSettings" :> (("path" :> Get(config, "path", "/"))
                                  @@ (IF Truthy(host) THEN "host" :> <<host>> ELSE <<>>))
          [] transport = "xhttp" ->
               "xhttpSettings" :> (("path" :> Get(config, "path", "/"))
                                   @@ (IF Truthy(host) THEN "host" :> host ELSE <<>>)
                                   @@ (IF Truthy(mode) THEN "mode" :> mode ELSE <<>>))
          [] OTHER -> <<>>

\* Mutant: the encrypted-hello block follows the presence of the key.
EchBlock_IfPresent(overrides) ==
    IF "ech_enabled" \in DOMAIN overrides
    THEN "ech" :> [enabled |-> TRUE, dnsQuery |-> Get(overrides, "ech_dns", FALSE)]
    ELSE <<>>

\* if overrides.get("ech_enabled"): tls_settings["ech"] = {...}
EchBlock(overrides) ==
    IF Get(overrides, "ech_enabled", FALSE)
    THEN "ech" :> [enabled |-> TRUE, dnsQuery |-> Get(overrides, "ech_dns", FALSE)]
    ELSE <<>>

\* The TLS / REALITY block of _build_stream_settings
SecuritySettings(config, overrides, security) ==
    IF security = "reality"
    THEN [security |-> "reality",
          realitySettings |->
             [serverName |-> Get(config, "sni", ""),
              fingerprint |-> Get(overrides, "fingerprint",
                                  Get(config, "fingerprint", "chrome")),
              publicKey |-> Get(config, "public_key", ""),
              shortId |-> Get(config, "short_id", "")]]
    ELSE IF security = "tls"
    THEN LET fp == Get(overrides, "fingerprint", Get(config, "fingerprint", ""))
             alpn_str == Get(config, "alpn", "")
             alpn == IF "alpn" \in DOMAIN overrides THEN overrides.alpn
                     ELSE IF alpn_str # "" THEN Split(alpn_str) ELSE <<>>
         IN  [security |-> "tls",
              tlsSettings |->
                 ("serverName" :> Get(config, "sni", config.address))
                 @@ (IF fp # "" THEN "fingerprint" :> fp ELSE <<>>)
                 @@ (IF alpn # <<>> THEN "alpn" :> alpn ELSE <<>>)
                 @@ EchBlock(overrides)]
    ELSE [security |-> "none"]

\* _build_stream_settings(config, overrides, security, transport)
build_stream_settings(config, overrides, security, transport) ==
    LET stream == ("network" :> transport)
                  @@ TransportSettings(config, overrides, transport)
                  @@ SecuritySettings(config, overrides, security)
        with_sockopt == apply_sockopt(stream, overrides, config)
    IN  IF Get(config, "allow_insecure", FALSE) /\ "tlsSettings" \in DOMAIN with_sockopt
        THEN Put(with_sockopt, "tlsSettings",
                 Put(with_sockopt.tlsSettings, "allowInsecure", TRUE))
        ELSE with_sockopt

\* "tls" if tls_type == "tls" else "none"
SecurityType(config) == IF Get(config, "tls", "tls") = "tls" THEN "tls" ELSE "none"

\* Mutant: the Shadowsocks builder is the generic stream builder.
shadowsocks_stream_Generic(config, overrides) ==
    build_stream_settings(config, overrides, "none",
                          Get(overrides, "transport", Get(config, "transport", "tcp")))

\* stream = {"network": "tcp"}; _apply_sockopt(stream, overrides)
shadowsocks_stream(config, overrides) ==
    apply_sockopt("network" :> "tcp", overrides, <<>>)

\* The four outbound builders
build_outbound(config, overrides) ==
    LET transport(default) ==
            Get(overrides, "transport", Get(config, "transport", default))
    IN  CASE config.protocol = "vless" ->
               LET security == Get(config, "security", "tls")
                   user == [id |-> config.uuid, encryption |-> "none"]
                           @@ (IF security = "reality"
                               THEN "flow" :> Get(config, "flow", "xtls-rprx-vision")
                               ELSE <<>>)
               IN  [tag |-> "proxy", protocol |-> "vless",
                    settings |-> [address |-> config.address, port |-> config.port,
                                  users |-> <<user>>],
                    streamSettings |->
                       build_stream_settings(config, overrides, security, transport("tcp"))]
          [] config.protocol = "vmess" ->
               [tag |-> "proxy", protocol |-> "vmess",
                settings |-> [address |-> config.address, port |-> config.port,
                              users |-> <<[id |-> config.uuid,
                                           alterId |-> Get(config, "alter_id", 0),
                                           security |-> Get(config, "security", "auto")]>>],
                streamSettings |->
                   build_stream_settings(config, overrides, SecurityType(config),
                                         transport("ws"))]
          [] config.protocol = "trojan" ->
               [tag |-> "proxy", protocol |-> "trojan",
                settings |-> [address |-> config.address, port |-> config.port,
                              password |-> config.password],
                streamSettings |->
                   build_stream_settings(config, overrides, SecurityType(config),
                                         transport("tcp"))]
          [] config.protocol = "shadowsocks" ->
               [tag |-> "proxy", protocol |-> "shadowsocks",
                settings |-> [address |-> config.address, port |-> config.port,
                              method |-> config.method, password |-> config.password],
                streamSettings |-> shadowsocks_stream(config, overrides)]

\* build_xray_json(config, overrides, socks_port), for a supported protocol
build_xray_json(config, overrides, socks_port) ==
    [log |-> [loglevel |-> "warning"],
     inbounds |-> <<[tag |-> "socks-in", port |-> socks_port, listen |-> "127.0.0.1",
                     protocol |-> "socks",
                     settings |-> [auth |-> "noauth", udp |-> TRUE]]>>,
     outbounds |-> <<build_outbound(config, overrides)>>]

\* ------------------------------------------------------ data (tester.py)
\* build_xray_json(config, overrides, socks_port=10808) with _overrides and
\* _description attached: of the document the probe touches the inbound port.
Doc(c) == [inbound_port |-> SOCKS_PORT, overrides |-> c.overrides,
           description |-> c.description]

\* TestResult(params=xray_json.get("_overrides", {}),
\*            description=xray_json.get("_description", ""))
NewResult(doc) ==
    [params |-> doc.overrides, description |-> doc.description,
     success |-> FALSE, latency_ms |-> -1, speed_mbps |-> -1, error |-> ""]

\* Mutant: the counter is never wrapped.
PortAt_NoWrap(counter, pool) == BASE_PORT + counter

\* _BASE_PORT + (_port_counter % 10000), for a pool of the given size
PortAt(counter, pool) == BASE_PORT + (counter % pool)

\* Mutant: the counter is left out of the port.
next_port_Fixed(counter) == BASE_PORT

\* _next_port in the probing specifications, whose pool is scaled to PoolSize
next_port(counter) == PortAt(counter, PoolSize)

\* Mutant: the latency is not recorded with the success.
SetSuccess_NoLatency(r, lat) == [r EXCEPT !.success = TRUE]

\* result.success = True; result.latency_ms = int(elapsed * 1000)
SetSuccess(r, lat) == [r EXCEPT !.success = TRUE, !.latency_ms = lat]

\* result.error = ...
SetError(r, e) == [r EXCEPT !.error = e]

\* result.speed_mbps = round(...)
SetSpeed(r, s) == [r EXCEPT !.speed_mbps = s]

\* os.unlink(config_path), OSError swallowed: the file is gone afterwards
Unlink(fs, p) == [fs EXCEPT ![p] = 0]

\* with open(config_path, "w") as f: json.dump(config, f)
WriteConfig(fs, p, i) == [fs EXCEPT ![p] = i]

\* Mutant: the throughput request is made whether or not it was asked for.
MeasureSpeed_Always(i) == TRUE

\* Mutant: the baseline probe is given the search's measure_speed.
MeasureSpeed_AlsoBaseline(i) == measure_speed

\* test_base_config always passes measure_speed=False
MeasureSpeed(i) == kind[i] # "baseline" /\ measure_speed

\* A probe is in flight from its port acquisition until its cleanup is over.
InFlight(i) == pc[i] \in {"launch", "settle", "probe", "speed", "term", "kill"}

NumInFlight == Cardinality({i \in Tasks : InFlight(i)})

\* --------------------------------------------- run_batch's shared state
\* Mutant: a semaphore whose value is zero still lets one task in.
SemFree_AlsoZero(s) == s >= 0

\* asyncio.Semaphore(concurrency): a slot is free while the value is positive
SemFree(s) == s > 0

\* Mutant: entering the semaphore does not take a slot.
SemAcquire_None(s) == s

\* async with sem: (enter)
SemAcquire(s) == s - 1

\* async with sem: (exit)
SemRelease(s) == s + 1

\* Mutant: only successful results are collected.
AppendResult_OnlySuccess(lst, r) == IF r.success THEN Append(lst, r) ELSE lst

\* results.append(result)
AppendResult(lst, r) == Append(lst, r)

\* completed += 1
Increment(c) == c + 1

\* Mutant: the callback is given the counter as it was before the increment.
OnResult_Stale(log, r, c, t, lst) ==
    Append(log, [result |-> r, completed |-> c - 1, total |-> t,
                 seen_len |-> Len(lst),
                 seen_last_is_result |-> Len(lst) > 0 /\ lst[Len(lst)] = r])

\* on_result(result, completed, total), together with what the callback can
\* see of the caller's result list at that moment
OnResult(log, r, c, t, lst) ==
    Append(log, [result |-> r, completed |-> c, total |-> t,
                 seen_len |-> Len(lst),
                 seen_last_is_result |-> Len(lst) > 0 /\ lst[Len(lst)] = r])

\* Mutant: the callback is given the number of the phase that has ended.
OnPhase_Previous(log, name, num) ==
    IF on_phase THEN Append(log, [name |-> name, num |-> num - 1, of |-> TOTAL_PHASES])
    ELSE log

\* if on_phase: on_phase(name, num, total_phases)
OnPhase(log, name, num) ==
    IF on_phase THEN Append(log, [name |-> name, num |-> num, of |-> TOTAL_PHASES])
    ELSE log

\* _run_one, from the return of test_single to the end of `async with sem`:
\* no await can suspend it (the lock is never contended), so it is one step.
RunOneTail(r) ==
    /\ completed' = Increment(completed)
    /\ results' = AppendResult(results, r)
    /\ calls' = OnResult(calls, r, completed', total, results')
    /\ sem' = SemRelease(sem)
    /\ UNCHANGED <<total, first, batch>>

\* run_batch up to its gather: a fresh semaphore, list and counter, and one
\* task per document (the tasks themselves are added by the caller's step).
CallRunBatch(docs) ==
    /\ sem' = concurrency
    /\ results' = <<>>
    /\ completed' = 0
    /\ total' = Len(docs)
    /\ first' = Len(tests)
    /\ batch' = "running"

\* Mutant: the batch is over as soon as one task is.
GatherDone_Any == \E i \in BatchTasks : pc[i] = "done"

\* await asyncio.gather(*tasks) completes when every task has
GatherDone == \A i \in BatchTasks : pc[i] = "done"

\* ------------------------------------------- smart_search (grid_search.py)
\* Mutant: the baseline case stays in the sweep.
SweepCases_WithBaseline == generate_smart_grid(param_groups)

\* sweep_cases = [(o, d) for o, d in sweep_cases if o]
SweepCases ==
    SelectSeq(generate_smart_grid(param_groups), LAMBDA c : DOMAIN c.overrides # {})

\* for overrides, desc in cases: xj = build_xray_json(...); jsons.append(xj)
Docs(cases) == [n \in 1 .. Len(cases) |-> Doc(cases[n])]

SweepDocs == Docs(SweepCases)

\* Mutant: the group's results are left in sweep order.
InsertByLatency_Append(sorted, x) == Append(sorted, x)

\* group_results.sort(key=lambda x: x[1]): stable, ascending latency
RECURSIVE InsertByLatency(_, _)
InsertByLatency(sorted, x) ==
    IF sorted = <<>> THEN <<x>>
    ELSE IF x[2] < Head(sorted)[2] THEN <<x>> \o sorted
    ELSE <<Head(sorted)>> \o InsertByLatency(Tail(sorted), x)

RECURSIVE SortByLatency(_)
SortByLatency(s) ==
    IF s = <<>> THEN <<>>
    ELSE InsertByLatency(SortByLatency(SubSeq(s, 1, Len(s) - 1)), s[Len(s)])

\* The successful sweep results that touch one of the group's keys
GroupResults(g, sres) ==
    LET keys == {GroupKeys(g)[n] : n \in 1 .. Len(GroupKeys(g))}
        hits == SelectSeq(sres, LAMBDA r :
                    r.success /\ \E k \in keys : k \in DOMAIN r.params)
    IN  SortByLatency([n \in 1 .. Len(hits) |-> <<hits[n].params, hits[n].latency_ms>>])

\* winners[group_name] = group_results, for the groups that have any
RECURSIVE ExtractWinners(_, _)
ExtractWinners(groups, sres) ==
    IF groups = <<>> THEN <<>>
    ELSE LET before == ExtractWinners(SubSeq(groups, 1, Len(groups) - 1), sres)
             g == groups[Len(groups)]
             gr == GroupResults(g, sres)
         IN  IF gr = <<>> \/ \E n \in 1 .. Len(before) : before[n].group = g
             THEN before
             ELSE Append(before, [group |-> g, results |-> gr])

\* Mutant: winners in a single group are enough for a combine phase.
Combines_AnyWinner(w) == Len(w) > 0

\* if len(winners) > 1
Combines(w) == Len(w) > 1

ComboCases(w) == generate_combination_grid(w, TOP_N)

ComboDocs(w) == Docs(ComboCases(w))

\* Mutant: the new results go in front of the ones collected so far.
Extend_Front(lst, rs) == rs \o lst

\* all_results.extend(rs)
Extend(lst, rs) == lst \o rs

\* smart_search from the return of test_base_config to the gather of the
\* sweep batch: report the baseline, announce phase 2, build the sweep
\* documents (a build that raises ends the search) and call run_batch.
BaselineTail(r, docs) ==
    /\ calls' = OnResult(calls, r, 1, 1, all_results)
    /\ all_results' = Append(all_results, r)
    /\ phase_calls' = OnPhase(phase_calls, "Individual Parameter Sweep", 2)
    /\ IF AllBuild(SweepCases)
       THEN /\ CallRunBatch(docs)
            /\ phase' = "sweep"
       ELSE /\ phase' = "build_error"
            /\ UNCHANGED <<sem, results, completed, total, first, batch>>
    /\ UNCHANGED <<sweep_results, winners, grid>>

\* ----------------------------------------------------------- test_single
\* port = await _next_port(); rewrite the inbound port; write the temp file;
\* create the TestResult.  `ok` is whether the file could be written: the
\* write is outside the try block, so its failure leaves test_single as an
\* exception.
Materialize(i, ok) ==
    LET p == next_port(port_counter) IN
    /\ port' = [port EXCEPT ![i] = p]
    /\ port_counter' = port_counter + 1
    /\ IF ok
       THEN /\ files' = WriteConfig(files, p, i)
            /\ result' = [result EXCEPT ![i] = NewResult(tests[i])]
            /\ pc' = [pc EXCEPT ![i] = "launch"]
       ELSE /\ pc' = [pc EXCEPT ![i] = "raised"]
            /\ UNCHANGED <<files, result>>
    /\ UNCHANGED <<tests, kind, child>>

\* A probe moves on to its next await.
Advance(i, to) ==
    /\ pc' = [pc EXCEPT ![i] = to]
    /\ UNCHANGED <<tests, kind, port, globalVars, batchVars, searchVars>>

\* The tail of the finally block and the return to the caller: delete the temp
\* file, return the result; the caller then runs on to its own next await.
\* `ch` is the child's state at that point.
Finish(i, r, ch) ==
    LET new == IF kind[i] = "baseline" /\ AllBuild(SweepCases) THEN SweepDocs ELSE <<>>
        fresh(v) == [n \in 1 .. Len(new) |-> v]
    IN  /\ files' = Unlink(files, port[i])
        /\ result' = [result EXCEPT ![i] = r] \o fresh(<<>>)
        /\ child' = [child EXCEPT ![i] = ch] \o fresh("none")
        /\ pc' = [pc EXCEPT ![i] = "done"] \o fresh("queued")
        /\ port' = port \o fresh(0)
        /\ tests' = tests \o new
        /\ kind' = kind \o fresh("sweep")
        /\ UNCHANGED port_counter
        /\ IF kind[i] = "baseline"
           THEN BaselineTail(r, new)
           ELSE RunOneTail(r) /\ UNCHANGED searchVars

\* Mutant: the finally block never terminates the child.
NeedsTerminate_Never(ch) == FALSE

\* finally: if proc and proc.returncode is None: proc.terminate(), then wait
\* for the exit; else straight to the deletion of the temp file.
NeedsTerminate(ch) == ch = "running"

\* What proc.returncode can say when the code reads it: a spawned child may
\* have exited by itself in the meantime.
Observed(ch) == IF ch = "none" THEN {"none"} ELSE {"running", "exited"}

Teardown(i, r) ==
    \E ch \in Observed(child[i]) :
       IF NeedsTerminate(ch)
       THEN /\ result' = [result EXCEPT ![i] = r]
            /\ child' = child
            /\ Advance(i, "term")
       ELSE Finish(i, r, ch)

\* _run_one up to the first await inside test_single: take a semaphore slot
\* (asyncio wakes waiters first come first served, and the tasks were created
\* in list order), acquire the port and materialize the document.
StartOne(i) ==
    /\ i \in BatchTasks
    /\ batch \in {"running", "raised"}
    /\ pc[i] = "queued"
    /\ SemFree(sem)
    /\ \A j \in BatchTasks : j < i => pc[j] # "queued"
    /\ \E ok \in BOOLEAN :
          /\ Materialize(i, ok)
          /\ sem' = IF ok THEN SemAcquire(sem) ELSE sem
    /\ UNCHANGED <<results, completed, total, first, calls, batch>>
    /\ UNCHANGED <<inputVars, detailVars, searchVars>>

\* proc = await asyncio.create_subprocess_exec(...): the child runs, or the
\* spawn raises (caught by `except Exception`, proc stays None).
Launch(i) ==
    /\ pc[i] = "launch"
    /\ \/ /\ child' = [child EXCEPT ![i] = "running"]
          /\ result' = result
          /\ Advance(i, "settle")
       \/ Finish(i, SetError(result[i], "exception"), "none")
    /\ UNCHANGED <<inputVars, detailVars>>

\* await asyncio.sleep(1.5); if proc.returncode is not None: record the exit
\* code and return (the finally block then finds nothing to terminate).
Settle(i) ==
    /\ pc[i] = "settle"
    /\ \E ch \in Observed(child[i]) :
          IF ch = "exited"
          THEN Finish(i, SetError(result[i], "exit"), ch)
          ELSE /\ UNCHANGED <<child, result>>
               /\ Advance(i, "probe")
    /\ UNCHANGED <<inputVars, detailVars>>

\* The connectivity request through the child's SOCKS endpoint: status 200 or
\* 204 with its latency, another status ("http"), asyncio.TimeoutError
\* ("timeout"), or aiohttp.ClientError / any other exception (str(e)).
ConnectErrors == {"http", "timeout", "exception"}

Connect(i) ==
    /\ pc[i] = "probe"
    /\ \/ \E lat \in Latencies :
            IF MeasureSpeed(i)
            THEN /\ result' = [result EXCEPT ![i] = SetSuccess(result[i], lat)]
                 /\ child' = child
                 /\ Advance(i, "speed")
            ELSE Teardown(i, SetSuccess(result[i], lat))
       \/ \E e \in ConnectErrors : Teardown(i, SetError(result[i], e))
    /\ UNCHANGED <<inputVars, detailVars>>

\* The optional throughput request; its failure is swallowed and leaves the
\* sentinel.
Throughput(i) ==
    /\ pc[i] = "speed"
    /\ \E s \in Speeds \cup {-1} : Teardown(i, SetSpeed(result[i], s))
    /\ UNCHANGED <<inputVars, detailVars>>

\* await asyncio.wait_for(proc.wait(), timeout=3): the child exits in time.
TermExit(i) ==
    /\ pc[i] = "term"
    /\ Finish(i, result[i], "exited")
    /\ UNCHANGED <<inputVars, detailVars>>

\* ... or the grace period runs out: proc.kill()
GraceTimeout(i) ==
    /\ pc[i] = "term"
    /\ UNCHANGED <<child, result>>
    /\ Advance(i, "kill")
    /\ UNCHANGED <<inputVars, detailVars>>

\* await proc.wait() after the kill
KillExit(i) ==
    /\ pc[i] = "kill"
    /\ Finish(i, result[i], "exited")
    /\ UNCHANGED <<inputVars, detailVars>>

\* -------------------------------------------------------------- run_batch
\* await asyncio.gather(*tasks); return results: run_batch called on its
\* own, or by full_search, which returns what run_batch returns.
BatchReturn ==
    /\ phase \in {"none", "full"}
    /\ batch = "running"
    /\ GatherDone
    /\ batch' = "returned"
    /\ phase' = IF phase = "full" THEN "returned" ELSE phase
    /\ all_results' = IF phase = "full" THEN results ELSE all_results
    /\ UNCHANGED <<sem, results, completed, total, first, calls>>
    /\ UNCHANGED <<sweep_results, winners, phase_calls, grid>>
    /\ UNCHANGED <<inputVars, detailVars, taskVars, globalVars>>

\* gather re-raises the first exception of a task as soon as that task ends;
\* nothing in run_batch or smart_search catches it.
BatchRaise ==
    /\ batch = "running"
    /\ \E i \in BatchTasks : pc[i] = "raised"
    /\ batch' = "raised"
    /\ phase' = IF phase = "none" THEN "none" ELSE "raised"
    /\ UNCHANGED <<sem, results, completed, total, first, calls>>
    /\ UNCHANGED <<all_results, sweep_results, winners, phase_calls, grid>>
    /\ UNCHANGED <<inputVars, detailVars, taskVars, globalVars>>

\* ------------------------------------------------------------ smart_search
\* smart_search up to its first await: announce phase 1, build the baseline
\* document and enter test_single through test_base_config.
SmartStart ==
    /\ phase = "entry"
    /\ phase_calls' = OnPhase(phase_calls, "Baseline Test", 1)
    /\ IF Builds(protocol, BaselineCase.overrides)
       THEN \E ok \in BOOLEAN :
               /\ Materialize(1, ok)
               /\ phase' = IF ok THEN "baseline" ELSE "raised"
       ELSE /\ phase' = "build_error"
            /\ UNCHANGED <<taskVars, globalVars>>
    /\ UNCHANGED <<all_results, sweep_results, winners, grid>>
    /\ UNCHANGED <<inputVars, detailVars, batchVars>>

\* From the return of the sweep batch to the next await: extend all_results,
\* extract the winners, announce phase 3 and, with winners in more than one
\* group, build the combinations and call run_batch; else return.
SweepReturn ==
    /\ phase = "sweep"
    /\ batch = "running"
    /\ GatherDone
    /\ LET w == ExtractWinners(param_groups, results)
           go == Combines(w) /\ AllBuild(ComboCases(w))
           new == IF go THEN ComboDocs(w) ELSE <<>>
           fresh(v) == [n \in 1 .. Len(new) |-> v]
       IN  /\ sweep_results' = results
           /\ all_results' = Extend(all_results, results)
           /\ winners' = w
           /\ phase_calls' = OnPhase(phase_calls, "Combining Winners", 3)
           /\ tests' = tests \o new
           /\ kind' = kind \o fresh("combine")
           /\ pc' = pc \o fresh("queued")
           /\ port' = port \o fresh(0)
           /\ child' = child \o fresh("none")
           /\ result' = result \o fresh(<<>>)
           /\ IF go
              THEN /\ CallRunBatch(new)
                   /\ phase' = "combine"
              ELSE /\ batch' = "returned"
                   /\ phase' = IF Combines(w) THEN "build_error" ELSE "returned"
                   /\ UNCHANGED <<sem, results, completed, total, first>>
    /\ UNCHANGED <<calls, grid, inputVars, detailVars, globalVars>>

\* all_results.extend(combo_results); return all_results
CombineReturn ==
    /\ phase = "combine"
    /\ batch = "running"
    /\ GatherDone
    /\ all_results' = Extend(all_results, results)
    /\ batch' = "returned"
    /\ phase' = "returned"
    /\ UNCHANGED <<sweep_results, winners, phase_calls, grid>>
    /\ UNCHANGED <<sem, results, completed, total, first, calls>>
    /\ UNCHANGED <<inputVars, detailVars, taskVars, globalVars>>

\* ------------------------------------------------------------- full_search
\* full_search up to its await: announce the single phase, generate the full
\* grid, build every document (a build that raises ends the search) and call
\* run_batch.
FullStart ==
    /\ phase = "full_entry"
    /\ phase_calls' = IF on_phase
                      THEN Append(phase_calls, [name |-> "Full Grid Search", num |-> 1, of |-> 1])
                      ELSE phase_calls
    /\ LET cases == generate_full_grid(param_groups)
           new == IF AllBuild(cases) THEN Docs(cases) ELSE <<>>
           fresh(v) == [n \in 1 .. Len(new) |-> v]
       IN  /\ tests' = tests \o new
           /\ kind' = kind \o fresh("full")
           /\ pc' = pc \o fresh("queued")
           /\ port' = port \o fresh(0)
           /\ child' = child \o fresh("none")
           /\ result' = result \o fresh(<<>>)
           /\ IF AllBuild(cases)
              THEN /\ CallRunBatch(new)
                   /\ phase' = "full"
              ELSE /\ phase' = "build_error"
                   /\ UNCHANGED <<sem, results, completed, total, first, batch>>
    /\ UNCHANGED <<calls, all_results, sweep_results, winners, grid>>
    /\ UNCHANGED <<inputVars, detailVars, globalVars>>

\* ------------------------------------------------- specification: one batch
\* run_batch called on n documents with a fresh semaphore, list and counter.
BatchInput(i) == Doc(Case("doc" :> i, << <<"doc", i>> >>))

Init ==
    /\ base_config = <<>>
    /\ document = <<>>
    /\ events = <<>>
    /\ returncode = <<>>
    /\ proxy = 0
    /\ \E n \in 0 .. MaxDocs :
          /\ tests = [i \in 1 .. n |-> BatchInput(i)]
          /\ kind = [i \in 1 .. n |-> "batch"]
          /\ pc = [i \in 1 .. n |-> "queued"]
          /\ port = [i \in 1 .. n |-> 0]
          /\ child = [i \in 1 .. n |-> "none"]
          /\ result = [i \in 1 .. n |-> <<>>]
          /\ total = n
    /\ concurrency \in 0 .. MaxConc
    /\ measure_speed \in BOOLEAN
    /\ param_groups = <<>>
    /\ protocol = "vless"
    /\ values_kept = MaxValues
    /\ on_phase = TRUE
    /\ sem = concurrency
    /\ port_counter = 0
    /\ files = [p \in Ports |-> 0]
    /\ results = <<>>
    /\ completed = 0
    /\ first = 0
    /\ calls = <<>>
    /\ batch = "running"
    /\ phase = "none"
    /\ all_results = <<>>
    /\ sweep_results = <<>>
    /\ winners = <<>>
    /\ phase_calls = <<>>
    /\ grid = <<>>

Probe ==
    \/ \E i \in Tasks : StartOne(i)
    \/ \E i \in Tasks : Launch(i)
    \/ \E i \in Tasks : Settle(i)
    \/ \E i \in Tasks : Connect(i)
    \/ \E i \in Tasks : Throughput(i)
    \/ \E i \in Tasks : TermExit(i)
    \/ \E i \in Tasks : GraceTimeout(i)
    \/ \E i \in Tasks : KillExit(i)

Next ==
    \/ Probe
    \/ BatchReturn
    \/ BatchRaise

Spec == Init /\ [][Next]_vars

\* The event loop runs every task that is ready, and every await of a probe
\* completes (each probe terminates).
FairSpec == Spec /\ WF_vars(Next)

\* ---------------------------------------------- specification: smart search
\* smart_search called in a fresh process.
\* quick_search's fixed param_groups
QUICK_GROUPS == <<"fragment", "fingerprint", "alpn">>

GroupChoices == { <<"mptcp", "tcp_no_delay">>, <<"ech">>, <<"nosuch">>, QUICK_GROUPS }

ProtocolChoices == {"vless", "shadowsocks", "wireguard"}

SmartInit ==
    /\ base_config = <<>>
    /\ document = <<>>
    /\ events = <<>>
    /\ returncode = <<>>
    /\ proxy = 0
    /\ concurrency \in 1 .. MaxConc
    /\ measure_speed \in BOOLEAN
    /\ param_groups \in GroupChoices
    /\ protocol \in ProtocolChoices
    /\ values_kept = MaxValues
    /\ on_phase \in BOOLEAN
    /\ tests = <<Doc(BaselineCase)>>
    /\ kind = <<"baseline">>
    /\ pc = <<"queued">>
    /\ port = <<0>>
    /\ child = <<"none">>
    /\ result = << <<>> >>
    /\ port_counter = 0
    /\ files = [p \in Ports |-> 0]
    /\ sem = 0
    /\ results = <<>>
    /\ completed = 0
    /\ total = 0
    /\ first = 0
    /\ calls = <<>>
    /\ batch = "none"
    /\ phase = "entry"
    /\ all_results = <<>>
    /\ sweep_results = <<>>
    /\ winners = <<>>
    /\ phase_calls = <<>>
    /\ grid = <<>>

SmartNext ==
    \/ SmartStart
    \/ Probe
    \/ SweepReturn
    \/ CombineReturn
    \/ BatchRaise

SmartSpec == SmartInit /\ [][SmartNext]_vars

\* The event loop runs every task that is ready, and every await of a probe
\* completes.
FairSmartSpec == SmartSpec /\ WF_vars(SmartNext)

\* ------------------------------------------ specification: any search mode
\* full_search called in a fresh process.
FullInit ==
    /\ base_config = <<>>
    /\ document = <<>>
    /\ events = <<>>
    /\ returncode = <<>>
    /\ proxy = 0
    /\ concurrency \in 1 .. MaxConc
    /\ measure_speed \in BOOLEAN
    /\ param_groups \in GroupChoices
    /\ protocol \in ProtocolChoices
    /\ values_kept = MaxValues
    /\ on_phase \in BOOLEAN
    /\ tests = <<>>
    /\ kind = <<>>
    /\ pc = <<>>
    /\ port = <<>>
    /\ child = <<>>
    /\ result = <<>>
    /\ port_counter = 0
    /\ files = [p \in Ports |-> 0]
    /\ sem = 0
    /\ results = <<>>
    /\ completed = 0
    /\ total = 0
    /\ first = 0
    /\ calls = <<>>
    /\ batch = "none"
    /\ phase = "full_entry"
    /\ all_results = <<>>
    /\ sweep_results = <<>>
    /\ winners = <<>>
    /\ phase_calls = <<>>
    /\ grid = <<>>

\* smart_search (quick_search is smart_search on QUICK_GROUPS) or full_search
SearchInit == SmartInit \/ FullInit

SearchNext ==
    \/ SmartNext
    \/ FullStart
    \/ BatchReturn

SearchSpec == SearchInit /\ [][SearchNext]_vars

\* ------------------------------------------------------------------ claims
\* ------------------------------------ specification: the generators alone
\* generate_smart_grid, the winner extraction and generate_combination_grid
\* applied to drawn inputs, over every value of every dimension.
GridGroupChoices ==
    { <<>>, <<"nosuch">>, <<"fingerprint">>, <<"transport">>,
      <<"alpn", "domain_strategy">>, <<"fingerprint", "fragment_length">>,
      <<"alpn", "alpn">>, <<"ech", "ech_enabled">>, <<"alpn", "ech", "mptcp">>,
      <<"nosuch", "fingerprint">>, <<"alpn", "nosuch", "mptcp">>,
      QUICK_GROUPS }

\* What a sweep batch may return: which probes succeed and how fast, by
\* position in the sweep list.
Patterns == {"ok_const", "ok_slower_first", "fail", "odd", "mixed", "first"}

Succeeds(p, n) ==
    CASE p \in {"ok_const", "ok_slower_first"} -> TRUE
      [] p = "fail" -> FALSE
      [] p = "odd" -> n % 2 = 1
      [] p = "mixed" -> n % 3 # 0
      [] p = "first" -> n = 1

LatencyOf(p, n) ==
    CASE p = "ok_const" -> 50
      [] p = "ok_slower_first" -> 100 - n
      [] p = "mixed" -> (n * 7) % 5
      [] OTHER -> n

Outcome(doc, p, n) ==
    IF Succeeds(p, n) THEN SetSuccess(NewResult(doc), LatencyOf(p, n))
    ELSE SetError(NewResult(doc), "timeout")

Reverse(q) == [n \in 1 .. Len(q) |-> q[Len(q) + 1 - n]]

gridRest == <<inputVars, detailVars, taskVars, globalVars, batchVars, all_results, phase_calls>>

GridInit ==
    /\ base_config = <<>>
    /\ document = <<>>
    /\ events = <<>>
    /\ returncode = <<>>
    /\ proxy = 0
    /\ param_groups \in GridGroupChoices
    /\ protocol = "vless"
    /\ values_kept = Len(PARAM_SPACE.fingerprint)   \* the longest value list
    /\ on_phase = TRUE
    /\ concurrency = 1
    /\ measure_speed = FALSE
    /\ tests = <<>>
    /\ kind = <<>>
    /\ pc = <<>>
    /\ port = <<>>
    /\ child = <<>>
    /\ result = <<>>
    /\ port_counter = 0
    /\ files = [p \in Ports |-> 0]
    /\ sem = 0
    /\ results = <<>>
    /\ completed = 0
    /\ total = 0
    /\ first = 0
    /\ calls = <<>>
    /\ batch = "none"
    /\ phase = "grid"
    /\ all_results = <<>>
    /\ sweep_results = <<>>
    /\ winners = <<>>
    /\ phase_calls = <<>>
    /\ grid = <<>>

\* sweep_cases = generate_smart_grid(config, param_groups)
GridSweep ==
    /\ phase = "grid"
    /\ grid' = generate_smart_grid(param_groups)
    /\ phase' = "grid_cases"
    /\ UNCHANGED <<gridRest, sweep_results, winners>>

\* sweep_results = await run_batch(sweep_jsons, ...): one result per sweep
\* document, in completion order
GridBatch ==
    /\ phase = "grid_cases"
    /\ \E p \in Patterns, rev \in BOOLEAN :
          LET rs == [n \in 1 .. Len(SweepDocs) |-> Outcome(SweepDocs[n], p, n)]
          IN  sweep_results' = IF rev THEN Reverse(rs) ELSE rs
    /\ phase' = "grid_results"
    /\ UNCHANGED <<gridRest, grid, winners>>

\* the winner extraction loop
GridExtract ==
    /\ phase = "grid_results"
    /\ winners' = ExtractWinners(param_groups, sweep_results)
    /\ phase' = "grid_winners"
    /\ UNCHANGED <<gridRest, grid, sweep_results>>

\* generate_combination_grid(winners, top_n=3), whatever the number of groups
GridCombine ==
    /\ phase = "grid_winners"
    /\ grid' = generate_combination_grid(winners, TOP_N)
    /\ phase' = "grid_combos"
    /\ UNCHANGED <<gridRest, sweep_results, winners>>

\* cases = generate_full_grid(config, param_groups): full_search hands one
\* document per case to a single run_batch and returns what it returns
GridFull ==
    /\ phase = "grid"
    /\ grid' = generate_full_grid(param_groups)
    /\ phase' = "grid_full"
    /\ UNCHANGED <<gridRest, sweep_results, winners>>

GridNext ==
    \/ GridSweep
    \/ GridBatch
    \/ GridExtract
    \/ GridCombine
    \/ GridFull

GridSpec == GridInit /\ [][GridNext]_vars

\* ------------------------------------------- specification: one document
\* build_xray_json applied to a config as uri_parser.parse_uri returns it and
\* to one OverrideSet, as the document loops of grid_search do.

\* The fragment keys _parse_vless adds for a "fragment=l,i,p" parameter
FragmentChoices ==
    { <<>>,
      [fragment_length |-> "1-3", fragment_interval |-> "5-10", fragment_packets |-> "1-2"],
      [fragment_length |-> "1-3", fragment_interval |-> "", fragment_packets |-> ""],
      [fragment_length |-> "", fragment_interval |-> "", fragment_packets |-> "1-2"] }

\* _parse_vless, security=reality
VlessReality ==
    { [protocol |-> "vless", uuid |-> "u", address |-> "a.example", port |-> 443,
       name |-> "", security |-> "reality", sni |-> "s.example", public_key |-> "k",
       short_id |-> "i", fingerprint |-> fp, flow |-> "xtls-rprx-vision",
       transport |-> t] @@ frag :
         fp \in {"chrome", "firefox"}, t \in {"tcp", "grpc"}, frag \in FragmentChoices }

\* _parse_vless, security=tls
VlessTls ==
    { [protocol |-> "vless", uuid |-> "u", address |-> "a.example", port |-> 443,
       name |-> "", security |-> "tls", sni |-> "a.example", host |-> "a.example",
       path |-> "/", transport |-> t, fingerprint |-> fp, alpn |-> al,
       allow_insecure |-> ai] @@ frag :
         t \in {"ws", "xhttp"}, fp \in {"", "firefox"}, al \in {"", "h2,http/1.1"},
         ai \in BOOLEAN, frag \in FragmentChoices }

\* _parse_vless, any other security
VlessPlain ==
    { [protocol |-> "vless", uuid |-> "u", address |-> "a.example", port |-> 443,
       name |-> "", security |-> "none", sni |-> "", transport |-> t,
       fingerprint |-> fp, alpn |-> "", host |-> "", path |-> "/"] @@ frag :
         t \in {"tcp", "ws"}, fp \in {"", "firefox"}, frag \in FragmentChoices }

\* _parse_vmess
VmessConfigs ==
    { [protocol |-> "vmess", uuid |-> "u", address |-> "a.example", port |-> 443,
       alter_id |-> 0, security |-> "auto", transport |-> t, tls |-> tls,
       sni |-> "", host |-> h, path |-> "/", fingerprint |-> fp, alpn |-> al,
       name |-> ""] :
         t \in {"ws", "tcp"}, tls \in {"", "tls"}, h \in {"", "h.example"},
         fp \in {"", "firefox"}, al \in {"", "h2"} }

\* _parse_trojan
TrojanConfigs ==
    { [protocol |-> "trojan", password |-> "p", address |-> "a.example", port |-> 443,
       sni |-> "a.example", transport |-> t, host |-> h, path |-> "",
       tls |-> tls, fingerprint |-> fp, alpn |-> al, name |-> ""] :
         t \in {"tcp", "grpc"}, tls \in {"tls", "none"}, h \in {"", "h.example"},
         fp \in {"", "firefox"}, al \in {"", "h2"} }

\* _parse_shadowsocks
ShadowsocksConfigs ==
    { [protocol |-> "shadowsocks", method |-> "aes-256-gcm", password |-> "p",
       address |-> "a.example", port |-> 8388, name |-> ""] }

ConfigChoices ==
    VlessReality \cup VlessTls \cup VlessPlain \cup VmessConfigs
       \cup TrojanConfigs \cup ShadowsocksConfigs

\* Every group name of PARAM_GROUPS
AllGroups ==
    <<"fragment_length", "fragment_interval", "fragment_packets", "fingerprint",
      "alpn", "ech", "socket_options", "transport">>

\* The cases of the sweep over every group (the baseline and each singleton)
\* and some combinations of two winners
CaseChoices ==
    LET sweep == generate_smart_grid(AllGroups)
        pair(a, b) == Case(a @@ b, <<>>)
    IN  {sweep[n] : n \in 1 .. Len(sweep)}
           \cup { pair([fragment_length |-> "10-20"], [fragment_packets |-> "1-3"]),
                  pair([ech_enabled |-> TRUE], [ech_dns |-> TRUE]),
                  pair([ech_enabled |-> FALSE], [ech_dns |-> TRUE]),
                  pair([transport |-> "xhttp"], [xhttp_mode |-> "packet-up"]),
                  pair([tcp_no_delay |-> FALSE], [tcp_keep_alive |-> 0]),
                  pair([fingerprint |-> "safari"], [alpn |-> <<"h2">>]),
                  pair([transport |-> "grpc"], [fragment_interval |-> "2-5"]) }

BuildInit ==
    /\ values_kept = Len(PARAM_SPACE.fingerprint)   \* the longest value list
    /\ on_phase = TRUE
    /\ base_config \in ConfigChoices
    /\ grid \in {<<c>> : c \in CaseChoices}
    /\ protocol = base_config.protocol
    /\ param_groups = AllGroups
    /\ concurrency = 1
    /\ measure_speed = FALSE
    /\ tests = <<>>
    /\ kind = <<>>
    /\ pc = <<>>
    /\ port = <<>>
    /\ child = <<>>
    /\ result = <<>>
    /\ port_counter = 0
    /\ files = [p \in Ports |-> 0]
    /\ sem = 0
    /\ results = <<>>
    /\ completed = 0
    /\ total = 0
    /\ first = 0
    /\ calls = <<>>
    /\ batch = "none"
    /\ phase = "build"
    /\ all_results = <<>>
    /\ sweep_results = <<>>
    /\ winners = <<>>
    /\ phase_calls = <<>>
    /\ document = <<>>
    /\ events = <<>>
    /\ returncode = <<>>
    /\ proxy = 0

\* xj = build_xray_json(config, overrides, socks_port=10808);
\* xj["_overrides"] = overrides; xj["_description"] = desc
BuiltDoc(config, c) ==
    Put(Put(build_xray_json(config, c.overrides, SOCKS_PORT), "_overrides", c.overrides),
        "_description", c.description)

Build ==
    /\ phase = "build"
    /\ document' = BuiltDoc(base_config, grid[1])
    /\ phase' = "built"
    /\ UNCHANGED <<inputVars, taskVars, globalVars, batchVars>>
    /\ UNCHANGED <<all_results, sweep_results, winners, phase_calls, grid>>
    /\ UNCHANGED <<base_config, events, returncode, proxy>>

BuildNext == Build

BuildSpec == BuildInit /\ [][BuildNext]_vars

\* The stream settings of the built document and of the document the same
\* config gives without overrides
Stream == document.outbounds[1].streamSettings
Overrides == document["_overrides"]
BaselineStream == build_xray_json(base_config, <<>>, SOCKS_PORT).outbounds[1].streamSettings

\* ------------------------------------------ specification: the port allocator
\* _next_port called MaxCalls times in a row, with the real pool of 10000
\* ports.  The counter is the allocator's whole state and each call adds one
\* to it, so the run starts at the value c the counter has after c earlier
\* calls: 0 is the fresh module, 10000 the state before the 10001st call.
\* port holds the ports returned since then.
PortInit ==
    /\ base_config = <<>>
    /\ document = <<>>
    /\ events = <<>>
    /\ returncode = <<>>
    /\ proxy = 0
    /\ concurrency = 1
    /\ measure_speed = FALSE
    /\ param_groups = <<>>
    /\ protocol = "vless"
    /\ values_kept = MaxValues
    /\ on_phase = TRUE
    /\ tests = <<>>
    /\ kind = <<>>
    /\ pc = <<>>
    /\ port = <<>>
    /\ child = <<>>
    /\ result = <<>>
    /\ port_counter \in 0 .. PORT_POOL
    /\ files = [p \in Ports |-> 0]
    /\ sem = 0
    /\ results = <<>>
    /\ completed = 0
    /\ total = 0
    /\ first = 0
    /\ calls = <<>>
    /\ batch = "none"
    /\ phase = "ports"
    /\ all_results = <<>>
    /\ sweep_results = <<>>
    /\ winners = <<>>
    /\ phase_calls = <<>>
    /\ grid = <<>>

\* port = await _next_port()
NextPortCall ==
    /\ Len(port) < MaxCalls
    /\ port' = Append(port, PortAt(port_counter, PORT_POOL))
    /\ port_counter' = port_counter + 1
    /\ UNCHANGED <<tests, kind, pc, child, result, files>>
    /\ UNCHANGED <<inputVars, detailVars, batchVars, searchVars>>

PortNext == NextPortCall

PortSpec == PortInit /\ [][PortNext]_vars

\* ----------------------------------------------- specification: one probe
\* test_single called once (by _run_one, or by test_base_config, which passes
\* measure_speed=False), followed await by await, with what it does to the
\* child, the network and the temp file written to `events`.

ExitCodes == {0, 1}
Statuses == {200, 204, 404, 503}
Messages == {"", "Cannot connect to host"}

\* f"xray exited with code {proc.returncode}"
ExitError(code) ==
    CASE code = 0 -> "xray exited with code 0"
      [] code = 1 -> "xray exited with code 1"
      [] code = -15 -> "xray exited with code -15"
      [] code = -9 -> "xray exited with code -9"

\* f"HTTP {resp.status}"
HttpError(status) ==
    CASE status = 200 -> "HTTP 200"
      [] status = 204 -> "HTTP 204"
      [] status = 404 -> "HTTP 404"
      [] status = 503 -> "HTTP 503"

\* The entry `events` gets for the answer to the connectivity request
StatusEvent(status) ==
    CASE status = 200 -> "status_200"
      [] status = 204 -> "status_204"
      [] status = 404 -> "status_404"
      [] status = 503 -> "status_503"

\* Mutant: only 200 counts as a success.
GoodStatus_Only200(status) == status = 200

\* if resp.status in (200, 204)
GoodStatus(status) == status \in {200, 204}

\* The base configs of the probes followed: a VLESS one and the Shadowsocks one
ProbeConfigs ==
    ShadowsocksConfigs
       \cup {c \in VlessPlain : c.transport = "tcp" /\ c.fingerprint = ""
                                 /\ "fragment_length" \notin DOMAIN c}

\* The cases their documents are built for (test_base_config is only ever
\* given the baseline document)
ProbeCases == {BaselineCase, Case("mptcp" :> TRUE, << <<"mptcp", TRUE>> >>)}

ProbeInit ==
    /\ base_config \in ProbeConfigs
    /\ document = <<>>
    /\ events = <<>>
    /\ returncode = <<>>
    /\ proxy = 0
    /\ concurrency = 1
    /\ measure_speed \in BOOLEAN
    /\ param_groups = <<>>
    /\ protocol = base_config.protocol
    /\ values_kept = MaxValues
    /\ on_phase = TRUE
    /\ tests = <<>>
    /\ kind \in {<<"batch">>, <<"baseline">>}
    /\ pc = <<"queued">>
    /\ port = <<0>>
    /\ child = <<"none">>
    /\ result = << <<>> >>
    /\ port_counter \in 0 .. PoolSize
    /\ files = [p \in Ports |-> 0]
    /\ sem = 0
    /\ results = <<>>
    /\ completed = 0
    /\ total = 0
    /\ first = 0
    /\ calls = <<>>
    /\ batch = "none"
    /\ phase = "probe_entry"
    /\ all_results = <<>>
    /\ sweep_results = <<>>
    /\ winners = <<>>
    /\ phase_calls = <<>>
    /\ grid \in {<<c>> : c \in IF kind[1] = "baseline" THEN {BaselineCase} ELSE ProbeCases}

probeRest == <<inputVars, batchVars, searchVars, base_config, tests, kind>>

\* os.unlink(config_path), OSError swallowed; return result
ProbeReturn(r, evs) ==
    /\ files' = Unlink(files, port[1])
    /\ events' = Append(evs, "unlink")
    /\ result' = <<r>>
    /\ pc' = <<"done">>

\* Mutant: the finally block signals the child whatever its returncode.
StillRunning_Always(ch, rc) == ch # "none"

\* if proc and proc.returncode is None
StillRunning(ch, rc) == ch # "none" /\ rc = <<>>

\* The finally block up to its first await: a child that has not exited is
\* sent terminate() (which raises ProcessLookupError when the process is
\* already gone: swallowed) and waited for; otherwise the temp file is
\* deleted and the result returned.
ProbeFinally(r, evs) ==
    IF StillRunning(child[1], returncode)
    THEN \/ /\ events' = Append(evs, "terminate")
            /\ result' = <<r>>
            /\ pc' = <<"term">>
            /\ UNCHANGED files
         \/ ProbeReturn(r, Append(evs, "terminate_gone"))
    ELSE ProbeReturn(r, evs)

\* The search builds the document the probe is called with
ProbeBuild ==
    /\ phase = "probe_entry"
    /\ tests' = <<BuiltDoc(base_config, grid[1])>>
    /\ phase' = "probe"
    /\ UNCHANGED <<all_results, sweep_results, winners, phase_calls, grid>>
    /\ UNCHANGED <<inputVars, batchVars, globalVars, detailVars>>
    /\ UNCHANGED <<kind, pc, port, child, result>>

\* Mutant: the port is written into the caller's document itself.
Rewritten_InPlace(doc, p) ==
    LET new == [doc EXCEPT !.inbounds[1].port = p]
    IN  [input |-> new, written |-> new]

\* Mutant: the document is written out with the port it was built with.
Rewritten_NoPort(doc, p) == [input |-> doc, written |-> doc]

\* config = json.loads(json.dumps(xray_json));
\* if config.get("inbounds"): config["inbounds"][0]["port"] = port
\* The caller's document and the copy that goes into the temp file.
Rewritten(doc, p) ==
    [input |-> doc,
     written |-> IF Get(doc, "inbounds", <<>>) # <<>>
                 THEN [doc EXCEPT !.inbounds[1].port = p] ELSE doc]

\* xray_json.get("_overrides", {}), xray_json.get("_description", "")
Labels(doc) ==
    [overrides |-> Get(doc, "_overrides", <<>>),
     description |-> Get(doc, "_description", "")]

\* port = await _next_port(); copy the document and rewrite its inbound port;
\* write the temp file (outside the try block: a failed write leaves
\* test_single as an exception); create the TestResult
ProbeStart ==
    /\ phase = "probe"
    /\ pc[1] = "queued"
    /\ LET p == next_port(port_counter)
           rw == Rewritten(tests[1], p)
       IN  /\ port' = <<p>>
           /\ port_counter' = port_counter + 1
           /\ tests' = <<rw.input>>
           /\ \/ /\ files' = WriteConfig(files, p, 1)
                 /\ document' = rw.written
                 /\ result' = <<NewResult(Labels(tests[1]))>>
                 /\ pc' = <<"launch">>
              \/ /\ pc' = <<"raised">>
                 /\ UNCHANGED <<files, document, result>>
    /\ UNCHANGED <<kind, child, base_config, events, returncode, proxy>>
    /\ UNCHANGED <<inputVars, batchVars, searchVars>>

\* proc = await asyncio.create_subprocess_exec(...); the spawn may raise
\* (caught by `except Exception`, proc stays None)
ProbeSpawn ==
    /\ phase = "probe"
    /\ pc[1] = "launch"
    /\ \/ /\ child' = <<"running">>
          /\ events' = Append(events, "spawn")
          /\ pc' = <<"settle">>
          /\ UNCHANGED <<result, files>>
       \/ \E m \in Messages :
             /\ ProbeReturn(SetError(result[1], m), events)
             /\ UNCHANGED child
    /\ UNCHANGED <<port, port_counter, returncode, document, proxy, probeRest>>

\* The child exits by itself while the probe is suspended in an await
ChildExits ==
    /\ phase = "probe"
    /\ pc[1] \in {"settle", "connect", "speed", "close"}
    /\ child[1] = "running"
    /\ \E code \in ExitCodes : returncode' = <<code>>
    /\ child' = <<"exited">>
    /\ UNCHANGED <<pc, port, result, port_counter, files, events, document, proxy, probeRest>>

\* await asyncio.sleep(1.5); if proc.returncode is not None: record the exit
\* code and return through the finally block
ProbeSettle ==
    /\ phase = "probe"
    /\ pc[1] = "settle"
    /\ IF returncode # <<>>
       THEN ProbeFinally(SetError(result[1], ExitError(returncode[1])), events)
       ELSE /\ pc' = <<"connect">>
            /\ UNCHANGED <<result, files, events>>
    /\ UNCHANGED <<child, port, port_counter, returncode, document, proxy, probeRest>>

\* The connectivity request inside the client session: a status, or
\* asyncio.TimeoutError, aiohttp.ClientError, or another exception.  The
\* session is closed next on every path (`async with`).
ProbeConnect ==
    /\ phase = "probe"
    /\ pc[1] = "connect"
    /\ proxy' = port[1]
    /\ \/ \E status \in Statuses, lat \in Latencies :
             /\ events' = events \o <<"connect_get", StatusEvent(status)>>
             /\ IF GoodStatus(status)
                THEN /\ result' = <<SetSuccess(result[1], lat)>>
                     /\ pc' = <<IF MeasureSpeed(1) THEN "speed" ELSE "close">>
                ELSE /\ result' = <<SetError(result[1], HttpError(status))>>
                     /\ pc' = <<"close">>
       \/ /\ events' = events \o <<"connect_get", "timeout">>
          /\ result' = <<SetError(result[1], "timeout")>>
          /\ pc' = <<"close">>
       \/ \E m \in Messages :
             /\ events' = events \o <<"connect_get", "transport_error">>
             /\ result' = <<SetError(result[1], m)>>
             /\ pc' = <<"close">>
    /\ UNCHANGED <<child, port, port_counter, files, returncode, document, probeRest>>

\* Mutant: a failed throughput request is recorded like a failed
\* connectivity request.
AfterSpeed_Recorded(r, outcome, s) ==
    CASE outcome = "speed_ok" -> SetSpeed(r, s)
      [] outcome = "speed_no_time" -> r
      [] outcome = "speed_failed" -> SetError(r, "timeout")

\* The result after the throughput request: speed_mbps is set when data
\* arrived in a positive time (`if elapsed > 0`); `except Exception: pass`
\* leaves the result as it was
AfterSpeed(r, outcome, s) ==
    CASE outcome = "speed_ok" -> SetSpeed(r, s)
      [] outcome = "speed_no_time" -> r
      [] outcome = "speed_failed" -> r

\* The optional throughput request: a speed, no speed when no time elapsed,
\* or any exception, swallowed
ProbeSpeed ==
    /\ phase = "probe"
    /\ pc[1] = "speed"
    /\ \E outcome \in {"speed_ok", "speed_no_time", "speed_failed"}, s \in Speeds :
          /\ events' = events \o <<"speed_get", outcome>>
          /\ result' = <<AfterSpeed(result[1], outcome, s)>>
    /\ pc' = <<"close">>
    /\ UNCHANGED <<child, port, port_counter, files, returncode, document, proxy, probeRest>>

\* Leaving `async with aiohttp.ClientSession(...)`: the session closes, or
\* closing raises and `except Exception` records str(e); then the finally
\* block
ProbeClose ==
    /\ phase = "probe"
    /\ pc[1] = "close"
    /\ \/ ProbeFinally(result[1], events)
       \/ \E m \in Messages :
             ProbeFinally(SetError(result[1], m), Append(events, "close_raised"))
    /\ UNCHANGED <<child, port, port_counter, returncode, document, proxy, probeRest>>

\* The child exits on the terminate signal while the probe waits for it
ProbeTermExit ==
    /\ phase = "probe"
    /\ pc[1] = "term"
    /\ returncode = <<>>
    /\ child' = <<"exited">>
    /\ returncode' = <<-15>>
    /\ UNCHANGED <<pc, port, result, port_counter, files, events, document, proxy, probeRest>>

\* await asyncio.wait_for(proc.wait(), timeout=3) returns: the child has
\* exited within the three seconds
ProbeTermWaited ==
    /\ phase = "probe"
    /\ pc[1] = "term"
    /\ returncode # <<>>
    /\ ProbeReturn(result[1], events)
    /\ UNCHANGED <<child, port, port_counter, returncode, document, proxy, probeRest>>

\* Mutant: the wait for the child gives up whether or not it has exited.
GraceExpired_Any(rc) == TRUE

\* wait_for raises asyncio.TimeoutError: three seconds have passed and
\* proc.wait() has not returned
GraceExpired(rc) == rc = <<>>

\* except asyncio.TimeoutError: proc.kill(); await proc.wait().  A kill()
\* that raises ProcessLookupError (the child went in the meantime) is
\* swallowed by the outer handler, with no further wait.
ProbeGraceTimeout ==
    /\ phase = "probe"
    /\ pc[1] = "term"
    /\ GraceExpired(returncode)
    /\ \/ /\ events' = Append(events, "kill")
          /\ pc' = <<"kill">>
          /\ UNCHANGED <<child, returncode, result, files>>
       \/ /\ returncode = <<>>
          /\ child' = <<"exited">>
          /\ returncode' = <<-15>>
          /\ ProbeReturn(result[1], Append(events, "kill_gone"))
    /\ UNCHANGED <<port, port_counter, document, proxy, probeRest>>

\* await proc.wait() after the kill
ProbeKillExit ==
    /\ phase = "probe"
    /\ pc[1] = "kill"
    /\ child' = <<"exited">>
    /\ returncode' = <<-9>>
    /\ ProbeReturn(result[1], events)
    /\ UNCHANGED <<port, port_counter, document, proxy, probeRest>>

ProbeNext ==
    \/ ProbeBuild
    \/ ProbeStart
    \/ ProbeSpawn
    \/ ChildExits
    \/ ProbeSettle
    \/ ProbeConnect
    \/ ProbeSpeed
    \/ ProbeClose
    \/ ProbeTermExit
    \/ ProbeTermWaited
    \/ ProbeGraceTimeout
    \/ ProbeKillExit

ProbeSpec == ProbeInit /\ [][ProbeNext]_vars

\* Whether `events` has the entry e
Did(e) == \E n \in 1 .. Len(events) : events[n] = e

\* The probe has returned its result
ProbeReturned == phase = "probe" /\ pc[1] = "done"

Started(i) == pc[i] # "queued"
Returned(i) == pc[i] = "done"

\* C1: at every instant at most `concurrency` probes are in flight (port
\* acquired, cleanup not finished); with a limit of 1 no two probes are ever
\* in flight together.
C1_InFlightAtMostLimit ==
    /\ NumInFlight <= concurrency
    /\ concurrency = 1 =>
          \A i, j \in Tasks : (InFlight(i) /\ InFlight(j)) => i = j

\* The limit is saturated while a document still waits for a slot.
C1_Witness ==
    /\ concurrency = 2
    /\ NumInFlight = 2
    /\ \E i \in Tasks : pc[i] = "queued"

\* C2: the list run_batch returns has exactly one result per input document,
\* carrying that document's overrides and description: none lost, none
\* duplicated, whatever the outcomes and the order of completion.
C2_OneResultPerDocument ==
    batch = "returned" =>
       /\ Len(results) = total
       /\ \A i \in BatchTasks :
             Cardinality({k \in 1 .. Len(results) :
                             /\ results[k].params = tests[i].overrides
                             /\ results[k].description = tests[i].description}) = 1

\* A full batch has returned with successes and failures mixed, completed in
\* another order than the documents were given.
C2_Witness ==
    /\ batch = "returned"
    /\ total = MaxDocs
    /\ \E k \in 1 .. Len(results) : results[k].success
    /\ \E k \in 1 .. Len(results) : ~results[k].success
    /\ results[1].description # tests[1].description

\* C3: the k-th invocation of on_result carries completed = k and total = N
\* and sees a result list of length k ending with the reported result; once
\* run_batch has returned there were exactly N invocations.
C3_OnResultCountsInOrder ==
    /\ \A k \in 1 .. Len(calls) :
          /\ calls[k].completed = k
          /\ calls[k].total = total
          /\ calls[k].seen_len = k
          /\ calls[k].seen_last_is_result
    /\ Len(calls) <= total
    /\ batch = "returned" => Len(calls) = total

\* Every document of a full batch has been reported, out of document order.
C3_Witness ==
    /\ batch = "returned"
    /\ Len(calls) = MaxDocs
    /\ concurrency = 2
    /\ calls[1].result.description # tests[1].description

\* C4: with a limit of at least 1, run_batch eventually returns.
C4_EventuallyReturns == (concurrency >= 1) => <>(batch = "returned")

\* C5: two probes in flight at the same time never hold the same port (and so
\* never the same temp file).
C5_NoSharedPortInFlight ==
    \A i, j \in Tasks :
       (i # j /\ InFlight(i) /\ InFlight(j)) => port[i] # port[j]

\* C6 as claimed: all documents probed in a run get pairwise different ports.
C6_AllPortsDistinct ==
    \A i, j \in Tasks :
       (i # j /\ Started(i) /\ Started(j)) => port[i] # port[j]

\* C6: two documents of a run get the same port exactly when their places in
\* the order of port acquisition differ by a multiple of the pool size; any
\* PoolSize documents probed in a row have pairwise different ports.
C6_PortsRepeatEveryPoolSize ==
    \A i, j \in Tasks :
       (Started(i) /\ Started(j)) =>
          (port[i] = port[j] <=> (i - j) % PoolSize = 0)

\* More documents than the pool has ports have been probed.
C6_Witness ==
    \E i, j \in Tasks :
       /\ Started(i) /\ Started(j)
       /\ j = i + PoolSize
       /\ port[i] = port[j]
       /\ \A k \in Tasks : (i < k /\ k < j) => (Started(k) /\ port[k] # port[i])

\* C7: every returned result has success = true iff latency_ms >= 0, and
\* success = false iff latency_ms = -1.
C7_SuccessIffLatency ==
    \A i \in Tasks :
       Returned(i) =>
          /\ result[i].success <=> result[i].latency_ms >= 0
          /\ ~result[i].success <=> result[i].latency_ms = -1

\* Results of three kinds have been returned: a success measured at 0 ms, a
\* child that exited early, and a failed connectivity request.
C7_Witness ==
    /\ \E i \in Tasks : Returned(i) /\ result[i].success /\ result[i].latency_ms = 0
    /\ \E i \in Tasks : Returned(i) /\ result[i].error = "exit"
    /\ \E i \in Tasks : Returned(i) /\ result[i].error = "timeout"

\* C8: at the moment test_single returns a result, its child (if any) is no
\* longer running and no file is left at its temp-file path.
C8_CleanupBeforeReturn ==
    [][\A i \in Tasks :
          (pc[i] # "done" /\ pc'[i] = "done") =>
             (child'[i] # "running" /\ files'[port[i]] = 0)]_vars

\* Probes have returned on three paths: spawn error (no child), early child
\* exit, and a completed connectivity request with a child to terminate.
C8_Witness ==
    /\ \E i \in Tasks : Returned(i) /\ child[i] = "none"
    /\ \E i \in Tasks : Returned(i) /\ result[i].error = "exit"
    /\ \E i \in Tasks : Returned(i) /\ result[i].success /\ child[i] = "exited"
    /\ \A p \in Ports : files[p] = 0

\* C9: no failure of a probe's step leaves test_single as an exception, so
\* run_batch never ends by raising.
C9_NoFailureEscapes ==
    /\ \A i \in Tasks : pc[i] # "raised"
    /\ batch # "raised"

\* The phase a probe belongs to, by the order in which smart_search runs them.
Rank(k) == CASE k = "baseline" -> 1 [] k = "sweep" -> 2 [] k = "combine" -> 3 [] OTHER -> 0

SweepTasks == {i \in Tasks : kind[i] = "sweep"}

\* C10: in smart search no probe of a later phase has acquired a port while a
\* probe of an earlier phase has not yet returned (cleanup included), and once
\* the winners have been extracted the sweep result list they were read from
\* holds the result of every sweep probe.
C10_PhasesSequential ==
    /\ \A i, j \in Tasks :
          (Rank(kind[i]) < Rank(kind[j]) /\ Started(j)) =>
             (pc[i] = "done" /\ child[i] # "running" /\ files[port[i]] # i)
    /\ phase \in {"combine", "returned"} =>
          /\ Len(sweep_results) = Cardinality(SweepTasks)
          /\ \A i \in SweepTasks :
                /\ pc[i] = "done"
                /\ \E k \in 1 .. Len(sweep_results) : sweep_results[k] = result[i]
          /\ winners = ExtractWinners(param_groups, sweep_results)

\* A combine probe is in flight after a sweep of two probes that ran
\* concurrently and completed out of list order.
C10_Witness ==
    /\ phase = "combine"
    /\ concurrency = 2
    /\ Cardinality(SweepTasks) = 2
    /\ Len(winners) = 2
    /\ sweep_results[1].description # tests[2].description
    /\ \E j \in Tasks : kind[j] = "combine" /\ InFlight(j)

\* A probe whose document carries the empty override set
IsBaseline(i) == DOMAIN tests[i].overrides = {}

\* C11: in every search mode a probe with a non-empty override set starts only
\* after a probe with the empty override set has completed, and a run has at
\* most one probe with the empty override set.
C11_BaselineFirst ==
    /\ \A j \in Tasks :
          (Started(j) /\ ~IsBaseline(j)) =>
             \E i \in Tasks : IsBaseline(i) /\ pc[i] = "done"
    /\ Cardinality({i \in Tasks : IsBaseline(i)}) <= 1

\* The override set holds the single entry key = v
IsSingleton(ov, key, v) == DOMAIN ov = {key} /\ ov[key] = v

\* How many times a dimension key is requested by a list of groups
Requested(groups, key) ==
    Cardinality({n \in 1 .. Len(KnownKeys(groups)) : KnownKeys(groups)[n] = key})

\* The number of candidate values of the dimensions at the given keys
RECURSIVE DomainSizes(_)
DomainSizes(keys) ==
    IF keys = <<>> THEN 0 ELSE Len(Values(Head(keys))) + DomainSizes(Tail(keys))

Tops(k) == SubSeq(winners[k].results, 1, Min(TOP_N, Len(winners[k].results)))

RECURSIVE TopsProduct(_)
TopsProduct(k) == IF k = 0 THEN 1 ELSE Len(Tops(k)) * TopsProduct(k - 1)

\* The combination of override sets a then b: b's value prevails on a shared key
IsMergeOf(ov, a, b) ==
    /\ DOMAIN ov = DOMAIN a \cup DOMAIN b
    /\ \A k \in DOMAIN ov : ov[k] = IF k \in DOMAIN b THEN b[k] ELSE a[k]

\* C14 as stated: with winners in two groups of sizes a and b the generator
\* returns min(a,3) x min(b,3) combinations, each carrying exactly two keys.
C14_TwoGroupsTwoKeys ==
    (phase = "grid_combos" /\ Len(winners) = 2) =>
       /\ Len(grid) = Len(Tops(1)) * Len(Tops(2))
       /\ \A n \in 1 .. Len(grid) : Cardinality(DOMAIN grid[n].overrides) = 2

\* C14, amended: the generator returns the cartesian product of the groups'
\* top-N winners; with two groups, one combination per pair of a top winner of
\* the first and of the second group, being the merge of the two override sets,
\* which has two keys exactly when the two sets are about different
\* dimensions; and no winner left out is faster than one taken.
C14_ProductOfTopWinners ==
    phase = "grid_combos" =>
       /\ Len(grid) = IF winners = <<>> THEN 0 ELSE TopsProduct(Len(winners))
       /\ \A k \in 1 .. Len(winners) : \A m \in 1 .. Len(winners[k].results) :
             m > TOP_N => \A t \in 1 .. Len(Tops(k)) :
                             Tops(k)[t][2] <= winners[k].results[m][2]
       /\ Len(winners) = 2 =>
             \A a \in 1 .. Len(Tops(1)) : \A b \in 1 .. Len(Tops(2)) :
                LET c == grid[(a - 1) * Len(Tops(2)) + b].overrides
                IN  /\ IsMergeOf(c, Tops(1)[a][1], Tops(2)[b][1])
                    /\ Cardinality(DOMAIN c) = 2
                          <=> DOMAIN Tops(1)[a][1] # DOMAIN Tops(2)[b][1]

\* Winners in two groups of eight and six give nine two-key combinations.
C14_Witness ==
    /\ phase = "grid_combos"
    /\ Len(winners) = 2
    /\ Len(winners[1].results) = 8
    /\ Len(winners[2].results) = 6
    /\ Len(grid) = 9
    /\ \A n \in 1 .. Len(grid) : Cardinality(DOMAIN grid[n].overrides) = 2

\* The size of the combine phase: the product of the groups' top-N winners when
\* at least two groups have winners, else nothing
CombineSize == IF Len(winners) > 1 THEN TopsProduct(Len(winners)) ELSE 0

Hits(g) ==
    {n \in 1 .. Len(sweep_results) :
        /\ sweep_results[n].success
        /\ \E m \in 1 .. Len(GroupKeys(g)) :
              GroupKeys(g)[m] \in DOMAIN sweep_results[n].params}

\* A winners pair (OverrideSet, latency) is the pair of a sweep result
PairOf(x, r) ==
    /\ x[2] = r.latency_ms
    /\ DOMAIN x[1] = DOMAIN r.params
    /\ \A k \in DOMAIN x[1] : x[1][k] = r.params[k]

\* The positions of the winners entries of a group
Entries(g) == {e \in 1 .. Len(winners) : winners[e].group = g}

\* C16: after the sweep phase, each requested group's winners entry is exactly
\* the (OverrideSet, latency) pairs of the successful sweep results that carry
\* one of the group's keys, in ascending latency order; a group without such a
\* result has no entry; no baseline and no failed result is a winner.
C16_WinnersAreSortedSuccesses ==
    phase \in {"grid_winners", "grid_combos"} =>
       /\ \A e \in 1 .. Len(winners) :
             \E n \in 1 .. Len(param_groups) : param_groups[n] = winners[e].group
       /\ \A n \in 1 .. Len(param_groups) :
             LET g == param_groups[n]
             IN  /\ Cardinality(Entries(g)) = IF Hits(g) = {} THEN 0 ELSE 1
                 /\ \A e \in Entries(g) :
                       LET ws == winners[e].results
                       IN  /\ Len(ws) = Cardinality(Hits(g))
                           /\ \A h \in Hits(g) :
                                 Cardinality({a \in 1 .. Len(ws) :
                                                 PairOf(ws[a], sweep_results[h])})
                                 = Cardinality({h2 \in Hits(g) :
                                                 PairOf(<<sweep_results[h].params,
                                                          sweep_results[h].latency_ms>>,
                                                        sweep_results[h2])})
                           /\ \A a \in 1 .. Len(ws) :
                                 /\ DOMAIN ws[a][1] # {}
                                 /\ \E h \in Hits(g) : PairOf(ws[a], sweep_results[h])
                           /\ \A a, b \in 1 .. Len(ws) :
                                 a < b => ws[a][2] <= ws[b][2]

\* Two groups swept with some probes failing: both groups have an entry, the
\* failed probes are left out, and the second group's entry starts with a
\* result that completed after a slower one of the same group.
C16_Witness ==
    /\ phase = "grid_winners"
    /\ param_groups = <<"alpn", "domain_strategy">>
    /\ \E n \in 1 .. Len(sweep_results) : ~sweep_results[n].success
    /\ Len(winners) = 2
    /\ Len(winners[2].results) = 2
    /\ \E h1, h2 \in Hits("domain_strategy") :
          /\ h1 < h2
          /\ PairOf(winners[2].results[1], sweep_results[h2])
          /\ sweep_results[h2].latency_ms < sweep_results[h1].latency_ms

\* The task whose result is the k-th element of the returned list
TaskOf(k) == CHOOSE i \in Tasks : result[i] = all_results[k]

\* C17: the list a search returns holds the results of the executed phases in
\* phase order (for smart search the baseline result, then the sweep results,
\* then the combine results; for full search its one batch), each phase's
\* results in the order of the onResult calls; every executed probe's result
\* appears exactly once.
C17_ReturnedListIsPhaseConcatenation ==
    phase = "returned" =>
       /\ Len(all_results) = Len(calls)
       /\ \A k \in 1 .. Len(calls) : all_results[k] = calls[k].result
       /\ \/ \A i \in Tasks : kind[i] = "full"
          \/ /\ kind[1] = "baseline" /\ all_results[1] = result[1]
             /\ \A i \in Tasks \ {1} : kind[i] \in {"sweep", "combine"}
             /\ SubSeq(all_results, 2, 1 + Len(sweep_results)) = sweep_results
       /\ \A i \in Tasks :
             Cardinality({k \in 1 .. Len(all_results) : all_results[k] = result[i]}) = 1
       /\ \A k \in 1 .. Len(all_results) : \E i \in Tasks : result[i] = all_results[k]
       /\ \A k1, k2 \in 1 .. Len(all_results) :
             k1 < k2 => Rank(kind[TaskOf(k1)]) <= Rank(kind[TaskOf(k2)])

\* A returned smart search with a combine phase whose sweep probes completed
\* in the reverse of their submission order
C17_Witness ==
    /\ phase = "returned"
    /\ Len(all_results) = 4
    /\ kind[4] = "combine"
    /\ all_results[2] = result[3]
    /\ all_results[3] = result[2]
    /\ all_results[4] = result[4]

\* Smart search has returned the baseline result and the sweep results, all
\* failed, and has run no combine probe
ReturnedAllFailed ==
    /\ phase = "returned"
    /\ Len(all_results) = 1 + Len(SweepDocs)
    /\ \A k \in 1 .. Len(all_results) : ~all_results[k].success
    /\ \A i \in Tasks : kind[i] # "combine"

\* C18: on a base configuration that builds, a smart search in which no probe
\* succeeds eventually returns 1 + (sweep size) failed results without having
\* run a combine probe.
C18_TotalFailureStillReturns ==
    protocol \in SupportedProtocols =>
       <>(ReturnedAllFailed \/ \E i \in Tasks : pc[i] = "done" /\ result[i].success)

\* No probe has started: no port allocated, no temp file written, no child
\* spawned, no result produced or reported
NothingProbed ==
    /\ port_counter = 0
    /\ \A p \in Ports : files[p] = 0
    /\ \A i \in Tasks : pc[i] = "queued" /\ port[i] = 0 /\ child[i] = "none"
    /\ calls = <<>>
    /\ results = <<>>
    /\ all_results = <<>>

\* C19: on a base configuration whose protocol is not a supported one, smart
\* and full search end with the build error before any probe has started; on a
\* supported protocol no build of the run raises.
C19_BuildErrorBeforeAnyProbe ==
    /\ protocol \notin SupportedProtocols =>
          /\ phase \in {"entry", "full_entry", "build_error"}
          /\ NothingProbed
    /\ phase = "build_error" => protocol \notin SupportedProtocols /\ NothingProbed
    /\ protocol \in SupportedProtocols =>
          /\ AllBuild(generate_smart_grid(param_groups))
          /\ AllBuild(generate_full_grid(param_groups))
          /\ AllBuild(ComboCases(winners))

\* A smart search on a wireguard configuration has ended with the build error
\* of its baseline document, after announcing the baseline phase.
C19_Witness ==
    /\ phase = "build_error"
    /\ protocol = "wireguard"
    /\ Len(phase_calls) = 1
    /\ phase_calls[1].name = "Baseline Test"

\* QUICK_PARAMS: the fragmentation dimensions, the fingerprint and the ALPN
QUICK_PARAMS ==
    <<"fragment_length", "fragment_interval", "fragment_packets", "fingerprint", "alpn">>

\* C20: the sweep list of quick mode holds a probe for every candidate value
\* of the three fragmentation dimensions, of the fingerprint and of the ALPN,
\* and for no other dimension.
C20_QuickSweepsFragmentation ==
    (phase = "grid_cases" /\ param_groups = QUICK_GROUPS) =>
       /\ \A m \in 1 .. Len(QUICK_PARAMS) :
             \A n \in 1 .. Len(PARAM_SPACE[QUICK_PARAMS[m]]) :
                \E c \in 1 .. Len(grid) :
                   IsSingleton(grid[c].overrides, QUICK_PARAMS[m],
                               PARAM_SPACE[QUICK_PARAMS[m]][n])
       /\ \A c \in 1 .. Len(grid) :
             \A k \in DOMAIN grid[c].overrides :
                \E m \in 1 .. Len(QUICK_PARAMS) : QUICK_PARAMS[m] = k

\* The product of the sizes of the value lists of the given keys
RECURSIVE Cardinalities(_)
Cardinalities(keys) ==
    IF keys = <<>> THEN 1 ELSE Len(PARAM_SPACE[Head(keys)]) * Cardinalities(Tail(keys))

\* Every case of the full grid gives each requested dimension a value of its
\* domain and nothing else
AssignsEveryKey(ov) ==
    /\ DOMAIN ov = {KnownKeys(param_groups)[n] : n \in 1 .. Len(KnownKeys(param_groups))}
    /\ \A k \in DOMAIN ov : \E n \in 1 .. Len(PARAM_SPACE[k]) : PARAM_SPACE[k][n] = ov[k]

\* The positions of the full grid that hold the same OverrideSet as position a
SameCase(a) ==
    {b \in 1 .. Len(grid) :
        \A k \in DOMAIN grid[a].overrides : grid[b].overrides[k] = grid[a].overrides[k]}

\* C21 (as stated): the full grid has as many cases as the product of the
\* requested dimensions' cardinalities, each case assigns a value to every
\* requested dimension, each combination occurs exactly once, and no winner
\* extraction or combine phase follows.
C21_FullGridEachCombinationOnce ==
    phase = "grid_full" =>
       /\ Len(grid) = Cardinalities(KnownKeys(param_groups))
       /\ \A a \in 1 .. Len(grid) : AssignsEveryKey(grid[a].overrides)
       /\ \A a \in 1 .. Len(grid) : SameCase(a) = {a}
       /\ sweep_results = <<>> /\ winners = <<>>

\* C21 (amended): the full grid has one case per element of the product of
\* the requested dimension keys' value lists, a key requested twice counting
\* twice; each case assigns a value to every requested dimension; every
\* combination of values of the distinct dimensions occurs, exactly once when
\* no key is requested twice and otherwise the same number of times each; no
\* winner extraction or combine phase follows.
C21_FullGridIsProduct ==
    phase = "grid_full" =>
       LET keys == KnownKeys(param_groups)
           distinct == Cardinalities(Distinct(keys))
       IN  /\ Len(grid) = Cardinalities(keys)
           /\ \A a \in 1 .. Len(grid) : AssignsEveryKey(grid[a].overrides)
           /\ Cardinality({SameCase(a) : a \in 1 .. Len(grid)}) = distinct
           /\ \A a \in 1 .. Len(grid) :
                 Cardinality(SameCase(a)) * distinct = Len(grid)
           /\ Distinct(keys) = keys => \A a \in 1 .. Len(grid) : SameCase(a) = {a}
           /\ sweep_results = <<>> /\ winners = <<>>

\* The full grid of two three-valued dimensions: nine cases, the first and
\* the last differing in both dimensions
C21_Witness ==
    /\ phase = "grid_full"
    /\ param_groups = <<"alpn", "domain_strategy">>
    /\ Len(grid) = 9
    /\ grid[1].overrides.domain_strategy = "AsIs"
    /\ grid[9].overrides.domain_strategy = "UseIPv4"
    /\ grid[1].overrides.alpn # grid[9].overrides.alpn

\* The compiled-in default transport of each outbound builder
DefaultTransport == IF protocol = "vmess" THEN "ws" ELSE "tcp"

\* Explicit override, else the base config's own value, else the default
Precedence(key, default) == Get(Overrides, key, Get(base_config, key, default))

\* C22: for each of the four protocols and each overridable field the base
\* config can carry (transport, fingerprint, ALPN, the three fragment fields),
\* the document holds the override when present, else the base config's value
\* when present, else the compiled-in default.  The TLS fields are compared in
\* the documents that have a TLS or REALITY block.
C22_OverridePrecedence ==
    phase = "built" =>
       /\ Stream.network = Precedence("transport", DefaultTransport)
       /\ "realitySettings" \in DOMAIN Stream =>
             Stream.realitySettings.fingerprint = Precedence("fingerprint", "chrome")
       /\ "tlsSettings" \in DOMAIN Stream =>
             /\ LET fp == Precedence("fingerprint", "")
                IN  IF fp = "" THEN "fingerprint" \notin DOMAIN Stream.tlsSettings
                    ELSE Get(Stream.tlsSettings, "fingerprint", "") = fp
             /\ LET alpn == IF "alpn" \in DOMAIN Overrides THEN Overrides.alpn
                            ELSE IF Get(base_config, "alpn", "") # ""
                                 THEN Split(base_config.alpn) ELSE <<>>
                IN  Get(Stream.tlsSettings, "alpn", <<>>) = alpn
       /\ LET len == Precedence("fragment_length", None)
              int == Precedence("fragment_interval", None)
              pkt == Precedence("fragment_packets", None)
              block == Get(Get(Stream, "sockopt", <<>>), "fragment", <<>>)
          IN  IF Truthy(len) \/ Truthy(int) \/ Truthy(pkt)
              THEN block = [packets |-> Or(pkt, "tlshello"), length |-> Or(len, "100-200"),
                            interval |-> Or(int, "10-20")]
              ELSE block = <<>>

\* d without its key k
Drop(d, k) == [x \in DOMAIN d \ {k} |-> d[x]]

\* d without the key sub of the dict at d[k]; an emptied dict goes with it
DropIn(d, k, sub) ==
    IF k \notin DOMAIN d THEN d
    ELSE IF DOMAIN d[k] \subseteq {sub} THEN Drop(d, k)
    ELSE Put(d, k, Drop(d[k], sub))

\* The document field each raw TCP option key controls
OptionName(key) ==
    CASE key = "tcp_no_delay" -> "tcpNoDelay"
      [] key = "tcp_fast_open" -> "tcpFastOpen"
      [] key = "mptcp" -> "tcpMptcp"
      [] key = "tcp_keep_alive" -> "tcpKeepAliveInterval"
      [] key = "domain_strategy" -> "domainStrategy"

\* The field of a fragmentation key inside the fragment block
FragmentField(key) ==
    CASE key = "fragment_length" -> "length"
      [] key = "fragment_interval" -> "interval"
      [] key = "fragment_packets" -> "packets"

\* Stream settings without the one field the key K names
WithoutField(st, K) ==
    CASE K = "transport" -> Drop(st, "network")
      [] K = "xhttp_mode" -> DropIn(st, "xhttpSettings", "mode")
      [] K = "fingerprint" ->
            DropIn(DropIn(st, "tlsSettings", "fingerprint"), "realitySettings", "fingerprint")
      [] K = "alpn" -> DropIn(st, "tlsSettings", "alpn")
      [] K = "ech_enabled" ->
            IF "tlsSettings" \in DOMAIN st
            THEN Put(st, "tlsSettings", DropIn(st.tlsSettings, "ech", "enabled")) ELSE st
      [] K = "ech_dns" ->
            IF "tlsSettings" \in DOMAIN st
            THEN Put(st, "tlsSettings", DropIn(st.tlsSettings, "ech", "dnsQuery")) ELSE st
      [] K \in {"fragment_length", "fragment_interval", "fragment_packets"} ->
            IF "sockopt" \in DOMAIN st
            THEN LET so == DropIn(st.sockopt, "fragment", FragmentField(K))
                 IN  IF DOMAIN so = {} THEN Drop(st, "sockopt") ELSE Put(st, "sockopt", so)
            ELSE st
      [] OTHER -> DropIn(st, "sockopt", OptionName(K))

\* Stream settings without the block the key K takes part in: the transport
\* with its settings block, the whole encrypted-hello block, the whole
\* fragment block
WithoutBlock(st, K) ==
    CASE K = "transport" ->
            [x \in DOMAIN st \ {"network", "wsSettings", "grpcSettings",
                                "httpSettings", "xhttpSettings"} |-> st[x]]
      [] K \in {"ech_enabled", "ech_dns"} -> DropIn(st, "tlsSettings", "ech")
      [] K \in {"fragment_length", "fragment_interval", "fragment_packets"} ->
            DropIn(st, "sockopt", "fragment")
      [] OTHER -> WithoutField(st, K)

\* The document outside the stream settings is the baseline document's
SameOutside ==
    LET base == build_xray_json(base_config, <<>>, SOCKS_PORT)
    IN  /\ document.log = base.log
        /\ document.inbounds = base.inbounds
        /\ Drop(document.outbounds[1], "streamSettings")
              = Drop(base.outbounds[1], "streamSettings")

\* The document was built from an OverrideSet with the single key K
Singleton(K) == phase = "built" /\ DOMAIN Overrides = {K}

\* C23 (as stated): a document built with a single-key OverrideSet K=V differs
\* from the baseline document only in the field K controls.
C23_SingleKeyChangesOnlyItsField ==
    \A K \in DOMAIN PARAM_SPACE :
       Singleton(K) =>
          /\ SameOutside
          /\ WithoutField(Stream, K) = WithoutField(BaselineStream, K)

\* C23 (amended): a document built with a single-key OverrideSet K=V differs
\* from the baseline document at most in the block K takes part in: the field
\* of K itself, and with it the transport's settings block for the transport
\* key, the other two fragment fields for a fragment key, and the DNS-query
\* flag for the encrypted-hello key; everything else is equal.
C23_SingleKeyChangesOnlyItsBlock ==
    \A K \in DOMAIN PARAM_SPACE :
       Singleton(K) =>
          /\ SameOutside
          /\ WithoutBlock(Stream, K) = WithoutBlock(BaselineStream, K)

\* A fragment-length probe on a TLS config without fragment settings: the
\* document gains the fragment block, the baseline's TLS settings stay
C23_Witness ==
    /\ Singleton("fragment_length")
    /\ "fragment_length" \notin DOMAIN base_config
    /\ "tlsSettings" \in DOMAIN Stream
    /\ "sockopt" \in DOMAIN Stream
    /\ "sockopt" \notin DOMAIN BaselineStream
    /\ Stream.sockopt.fragment.length = Overrides.fragment_length

\* The value the counter had before the calls of this run
CallsBefore == port_counter - Len(port)

\* C24: the k-th sequential call from a fresh counter (k = 0, 1, 2, ...)
\* returns BASE_PORT + (k mod 10000): the first 15 calls return BASE_PORT ..
\* BASE_PORT + 14 without a repeat, each later call the next port of the pool,
\* and the 10001st call BASE_PORT again.
C24_PortsRotateThroughPool ==
    phase = "ports" =>
       /\ CallsBefore \in 0 .. PORT_POOL
       /\ \A j \in 1 .. Len(port) :
             LET k == CallsBefore + (j - 1)
             IN  port[j] = IF k < PORT_POOL THEN BASE_PORT + k
                           ELSE BASE_PORT + (k - PORT_POOL)
       /\ (CallsBefore = 0 /\ Len(port) = 15) =>
             /\ port = [j \in 1 .. 15 |-> BASE_PORT + (j - 1)]
             /\ \A a, b \in 1 .. 15 : a # b => port[a] # port[b]
       /\ (CallsBefore = PORT_POOL /\ Len(port) > 0) => port[1] = BASE_PORT

\* The call made after 10000 earlier ones has returned the base port again,
\* and the next one the port after it
C24_Witness ==
    /\ phase = "ports"
    /\ CallsBefore = 10000
    /\ Len(port) = 2
    /\ port = <<BASE_PORT, BASE_PORT + 1>>

\* The fragment keys
FragmentKeys == {"fragment_packets", "fragment_length", "fragment_interval"}

\* The value supplied for a fragment key: the override's, else the base
\* config's, else nothing
Supplied(key) ==
    IF key \in DOMAIN Overrides THEN Overrides[key]
    ELSE IF key \in DOMAIN base_config THEN base_config[key]
    ELSE ""

\* The socket options of the built document
Sockopt == IF "sockopt" \in DOMAIN Stream THEN Stream.sockopt ELSE <<>>

\* C28: when at least one of fragment packets, length and interval is
\* supplied, the document's fragmentation block has exactly the three fields,
\* a supplied one with its value and a missing one with its constant
\* ('tlshello', '100-200', '10-20'); when none is supplied the document has no
\* fragmentation block.
C28_FragmentBlockIsCompleteTriple ==
    phase = "built" =>
       IF \E key \in FragmentKeys : Supplied(key) # ""
       THEN /\ "fragment" \in DOMAIN Sockopt
            /\ DOMAIN Sockopt.fragment = {"packets", "length", "interval"}
            /\ Sockopt.fragment.packets =
                  IF Supplied("fragment_packets") # ""
                  THEN Supplied("fragment_packets") ELSE "tlshello"
            /\ Sockopt.fragment.length =
                  IF Supplied("fragment_length") # ""
                  THEN Supplied("fragment_length") ELSE "100-200"
            /\ Sockopt.fragment.interval =
                  IF Supplied("fragment_interval") # ""
                  THEN Supplied("fragment_interval") ELSE "10-20"
       ELSE "fragment" \notin DOMAIN Sockopt

\* Only the fragment length is supplied, by the override set, and the block
\* has the two constants beside it
C28_Witness ==
    /\ phase = "built"
    /\ Overrides = [fragment_length |-> "10-20"]
    /\ "fragment_length" \notin DOMAIN base_config
    /\ Sockopt.fragment = [packets |-> "tlshello", length |-> "10-20", interval |-> "10-20"]

\* The raw socket tuning keys of an override set
OptionKeys == {"tcp_no_delay", "tcp_fast_open", "mptcp", "tcp_keep_alive", "domain_strategy"}

\* C29: each raw socket tuning option (tcpNoDelay, tcpFastOpen, tcpMptcp,
\* tcpKeepAliveInterval, domainStrategy) is in the document's socket options
\* exactly when its key is in the override set, and then with the override's
\* value, the values false and 0 included; nothing else but the fragment
\* block is in the socket options.
C29_RawOptionsOnlyWhenPresent ==
    phase = "built" =>
       /\ \A key \in OptionKeys :
             /\ OptionName(key) \in DOMAIN Sockopt <=> key \in DOMAIN Overrides
             /\ key \in DOMAIN Overrides => Sockopt[OptionName(key)] = Overrides[key]
       /\ DOMAIN Sockopt \subseteq {OptionName(key) : key \in OptionKeys} \cup {"fragment"}

\* The override set {tcp_no_delay: false, tcp_keep_alive: 0} has given the
\* socket options exactly those two values
C29_Witness ==
    /\ phase = "built"
    /\ DOMAIN Overrides = {"tcp_no_delay", "tcp_keep_alive"}
    /\ Overrides["tcp_no_delay"] = FALSE
    /\ Overrides["tcp_keep_alive"] = 0
    /\ DOMAIN Sockopt \ {"fragment"} = {"tcpNoDelay", "tcpKeepAliveInterval"}
    /\ Sockopt["tcpNoDelay"] = FALSE
    /\ Sockopt["tcpKeepAliveInterval"] = 0

\* C25: when the settle delay ends and the child has already exited, the
\* probe's next step returns the result with success = false and the error
\* "xray exited with code <the child's exit code>", having issued no
\* connectivity or throughput request and sent no terminate or kill (the
\* only things it ever did are the spawn and the temp file's deletion), and
\* the temp file is gone.
C25_EarlyExitSkipsProbeAndSignals ==
    [][(phase = "probe" /\ pc[1] = "settle" /\ returncode # <<>>) =>
          /\ pc'[1] = "done"
          /\ result'[1].success = FALSE
          /\ result'[1].error = ExitError(returncode[1])
          /\ result'[1].latency_ms = -1
          /\ result'[1].speed_mbps = -1
          /\ events' = <<"spawn", "unlink">>
          /\ files'[port[1]] = 0
          /\ returncode' = returncode]_vars

\* A child that exited with code 1 during the settle delay: the probe has
\* returned the exit-code failure and deleted the temp file
C25_Witness ==
    /\ ProbeReturned
    /\ returncode = <<1>>
    /\ events = <<"spawn", "unlink">>
    /\ result[1].success = FALSE
    /\ result[1].error = "xray exited with code 1"
    /\ files[port[1]] = 0

\* What the connectivity request can end with, as logged in `events`
ConnectOutcomes ==
    {"status_200", "status_204", "status_404", "status_503", "timeout", "transport_error"}

C27_ThroughputFailureIsSwallowed ==
    (phase = "probe" /\ Did("speed_failed")) =>
       /\ Did("status_200") \/ Did("status_204")
       /\ result[1].success = TRUE
       /\ result[1].latency_ms \in Latencies
       /\ result[1].error = ""
       /\ result[1].speed_mbps = -1

\* The entries of `events` for a signal call: delivered, or raising
\* ProcessLookupError
TerminateEvents == {"terminate", "terminate_gone"}
KillEvents == {"kill", "kill_gone"}

\* The step appends to `events` an entry of the set S
Logs(S) ==
    /\ Len(events') > Len(events)
    /\ \E n \in Len(events) + 1 .. Len(events') : events'[n] \in S

\* What the event log of any probe shows: at most one terminate() and one
\* kill(); a kill() directly after a delivered terminate and nowhere else; a
\* swallowed ProcessLookupError followed by the temp file's deletion and
\* nothing else; a returned probe whose child was spawned and did not exit by
\* itself had terminate() called, one whose child exited by itself had
\* neither call; the temp file of a returned probe is gone.
TeardownLog ==
    /\ Cardinality({n \in 1 .. Len(events) : events[n] \in TerminateEvents}) <= 1
    /\ Cardinality({n \in 1 .. Len(events) : events[n] \in KillEvents}) <= 1
    /\ \A n \in 1 .. Len(events) :
          /\ events[n] \in KillEvents => n > 1 /\ events[n - 1] = "terminate"
          /\ events[n] \in {"terminate_gone", "kill_gone"} =>
                /\ Len(events) = n + 1
                /\ events[n + 1] = "unlink"
                /\ pc[1] = "done"
    /\ ProbeReturned =>
          /\ files[port[1]] = 0
          /\ events[Len(events)] = "unlink"
          /\ (Did("spawn") /\ (returncode = <<>> \/ returncode[1] \notin ExitCodes))
                => \E e \in TerminateEvents : Did(e)
          /\ (returncode # <<>> /\ returncode[1] \in ExitCodes)
                => \A e \in TerminateEvents \cup KillEvents : ~Did(e)

\* C30: in a probe's teardown a child that is still running is first sent
\* terminate; kill is sent only from the wait that follows the terminate, when
\* the grace period has passed and the child has not exited, never before or
\* without the terminate; no signal call is made on a child whose exit is
\* known; a ProcessLookupError from either call is swallowed and the temp file
\* is deleted all the same.
C30_TerminateThenKillOnlyAfterGrace ==
    /\ [](phase = "probe" => TeardownLog)
    /\ [][phase = "probe" =>
             /\ Logs(TerminateEvents) =>
                   child[1] = "running" /\ returncode = <<>> /\ ~Did("terminate")
             /\ Logs(KillEvents) =>
                   /\ pc[1] = "term"
                   /\ returncode = <<>>
                   /\ events[Len(events)] = "terminate"
             /\ returncode # <<>> => ~Logs(TerminateEvents \cup KillEvents)]_vars

\* A child that ignored the terminate was killed after the grace period, and
\* the probe has returned with its temp file deleted
C30_Witness ==
    /\ ProbeReturned
    /\ Did("terminate")
    /\ Did("kill")
    /\ returncode = <<-9>>
    /\ files[port[1]] = 0

\* A terminate() that raised ProcessLookupError: the probe has returned all
\* the same, its temp file deleted
C30_WitnessGone ==
    /\ ProbeReturned
    /\ Did("terminate_gone")
    /\ files[port[1]] = 0

\* The requested groups with a winner: a successful sweep result that sets
\* one of the group's keys
WinningGroups ==
    {g \in {param_groups[n] : n \in 1 .. Len(param_groups)} :
        \E n \in 1 .. Len(sweep_results) :
           /\ sweep_results[n].success
           /\ \E m \in 1 .. Len(GroupKeys(g)) :
                 GroupKeys(g)[m] \in DOMAIN sweep_results[n].params}

\* The probe tasks of the combine phase
CombineTasks == {i \in Tasks : kind[i] = "combine"}

\* The sweep batch has returned to smart_search
SweepOver == phase \in {"combine", "returned"} \/ (phase = "raised" /\ winners # <<>>)

\* C31: in smart search a combination probe exists only after the sweep, and
\* only when at least two requested groups have winners; once the sweep is
\* over, with winners in no or one group there is no combine batch and the
\* search has returned, and with winners in two or more groups there is
\* exactly one combine batch, whose documents are the combinations of the
\* groups' top-3 winners, in order, created after all other probes.
C31_CombineOnlyWithTwoWinningGroups ==
    /\ CombineTasks # {} =>
          /\ SweepOver
          /\ \A i \in Tasks : kind[i] = "sweep" => pc[i] = "done"
    /\ SweepOver =>
          IF Cardinality(WinningGroups) < 2
          THEN /\ CombineTasks = {}
               /\ phase = "returned"
               /\ Len(all_results) = 1 + Len(sweep_results)
          ELSE /\ Len(winners) = Cardinality(WinningGroups)
               /\ CombineTasks = (Len(tests) - Len(ComboCases(winners)) + 1) .. Len(tests)
               /\ CombineTasks # {}
               /\ \A i \in CombineTasks :
                     tests[i] = Doc(ComboCases(winners)[i - (Len(tests) - Len(ComboCases(winners)))])
               /\ phase \in {"combine", "returned", "raised"}
               /\ BatchTasks = CombineTasks

\* Two groups had winners, and the one combination of them has been probed
C31_Witness ==
    /\ phase = "returned"
    /\ Cardinality(WinningGroups) = 2
    /\ Cardinality(CombineTasks) = 1
    /\ \A i \in CombineTasks : pc[i] = "done"

\* One group had a winner, and the search has returned without a combine batch
C31_WitnessOne ==
    /\ phase = "returned"
    /\ Cardinality(WinningGroups) = 1
    /\ CombineTasks = {}

\* The three on_phase calls of a smart search
PhaseStarts ==
    <<[name |-> "Baseline Test", num |-> 1, of |-> 3],
      [name |-> "Individual Parameter Sweep", num |-> 2, of |-> 3],
      [name |-> "Combining Winners", num |-> 3, of |-> 3]>>

\* The probes a smart search creates, as a function of its arguments and of
\* the sweep results alone
ExpectedProbes ==
    <<Doc(BaselineCase)>> \o SweepDocs
       \o (IF Cardinality(WinningGroups) > 1
           THEN ComboDocs(ExtractWinners(param_groups, sweep_results)) ELSE <<>>)

C32_WitnessNoCallback ==
    /\ phase = "returned"
    /\ ~on_phase
    /\ CombineTasks # {}
    /\ phase_calls = <<>>

\* test_single was called with measure_speed=True
SpeedRequested == kind[1] # "baseline" /\ measure_speed

\* The connectivity request was answered with status 200 or 204
ConnectSucceeded == Did("status_200") \/ Did("status_204")

\* C33: a probe issues the throughput request only when it was called with
\* the throughput option and its connectivity request succeeded, and then
\* after that request; a result with throughput >= 0 has success = true; the
\* result of a probe called without the option, or whose connectivity step
\* did not succeed, has throughput -1.
C33_ThroughputOnlyAfterSuccess ==
    (phase = "probe" /\ pc[1] \notin {"queued", "raised"}) =>
       /\ Did("speed_get") => SpeedRequested /\ ConnectSucceeded
       /\ \A n \in 1 .. Len(events) :
             events[n] = "speed_get" => n > 2 /\ events[n - 2] = "connect_get"
       /\ result[1].speed_mbps >= 0 => result[1].success /\ Did("speed_ok")
       /\ ~SpeedRequested => result[1].speed_mbps = -1
       /\ ~ConnectSucceeded => result[1].speed_mbps = -1 /\ ~result[1].success

\* A probe with the option has returned a throughput
C33_Witness ==
    /\ ProbeReturned
    /\ SpeedRequested
    /\ Did("speed_ok")
    /\ result[1].success
    /\ result[1].speed_mbps = 8

\* The temp files that exist, by the port in their name
TempFiles == {p \in Ports : files[p] # 0}

\* C34: once a probe has acquired its port, the document written for the
\* child has that port as its inbound port (and is otherwise the document the
\* probe was called with, whose own inbound port is the one it was built
\* with), the temp file the child is started on is the one named after that
\* port, and the SOCKS endpoint of the probe's requests is at that port.
C34_AcquiredPortEverywhere ==
    (phase = "probe" /\ pc[1] \notin {"queued", "raised"}) =>
       /\ port[1] = BASE_PORT + ((port_counter - 1) % PoolSize)
       /\ document.inbounds[1].port = port[1]
       /\ tests[1].inbounds[1].port = SOCKS_PORT
       /\ port[1] # SOCKS_PORT
       /\ [document EXCEPT !.inbounds[1].port = SOCKS_PORT] = tests[1]
       /\ pc[1] # "done" => TempFiles = {port[1]}
       /\ Did("connect_get") => proxy = port[1]
       /\ proxy \in {0, port[1]}

\* A probe whose document was built with port 10808 has made its
\* connectivity request through the port it acquired, with the child running
\* on the temp file of that port
C34_Witness ==
    /\ phase = "probe"
    /\ pc[1] = "close"
    /\ port_counter = 2
    /\ port[1] = BASE_PORT + 1
    /\ document.inbounds[1].port = BASE_PORT + 1
    /\ TempFiles = {BASE_PORT + 1}
    /\ proxy = BASE_PORT + 1
    /\ child[1] = "running"

\* C35: no step of a probe changes the document it was called with or the
\* base config the document was built from: at every point of the probe, and
\* after its return, the document is still the one build_xray_json returned
\* for that config and override set, with inbound port 10808, the override
\* set and the description attached.
C35_InputsUnchanged ==
    /\ [](phase = "probe" => tests[1] = BuiltDoc(base_config, grid[1]))
    /\ [](base_config \in ProbeConfigs)
    /\ [][base_config' = base_config /\ (phase = "probe" => tests' = tests)]_vars

\* A probe has returned a success and its input document still has the port
\* it was built with, while the copy it wrote had the acquired port
C35_Witness ==
    /\ ProbeReturned
    /\ result[1].success
    /\ tests[1].inbounds[1].port = SOCKS_PORT
    /\ tests[1]["_overrides"] = ("mptcp" :> TRUE)
    /\ document.inbounds[1].port = port[1]

\* The TLS settings of the built document, if it has any
TlsSettings == IF "tlsSettings" \in DOMAIN Stream THEN Stream.tlsSettings ELSE <<>>

\* The document as build_xray_json returned it, without what the search
\* attaches to it
Generated == Drop(Drop(document, "_overrides"), "_description")

\* C36: a document in standard-TLS mode has an encrypted-hello block exactly
\* when the override set has ech_enabled = true, and the block is then
\* {enabled: true, dnsQuery: the override set's ech_dns, false when absent};
\* in the other modes there is no such block; and for the override sets
\* {ech_dns: v} and {ech_enabled: false} the generated document is the
\* baseline document.
C36_EchBlockIffEnabled ==
    phase = "built" =>
       /\ "ech" \in DOMAIN TlsSettings <=>
             /\ "tlsSettings" \in DOMAIN Stream
             /\ "ech_enabled" \in DOMAIN Overrides
             /\ Overrides["ech_enabled"] = TRUE
       /\ "ech" \in DOMAIN TlsSettings =>
             TlsSettings.ech =
                [enabled |-> TRUE,
                 dnsQuery |-> IF "ech_dns" \in DOMAIN Overrides
                              THEN Overrides["ech_dns"] ELSE FALSE]
       /\ (DOMAIN Overrides = {"ech_dns"}
             \/ (DOMAIN Overrides = {"ech_enabled"} /\ Overrides["ech_enabled"] = FALSE)) =>
             Generated = build_xray_json(base_config, <<>>, SOCKS_PORT)

\* A TLS document built for {ech_enabled: true} alone has the block with
\* dnsQuery false
C36_Witness ==
    /\ phase = "built"
    /\ Overrides = ("ech_enabled" :> TRUE)
    /\ "tlsSettings" \in DOMAIN Stream
    /\ TlsSettings.ech = [enabled |-> TRUE, dnsQuery |-> FALSE]

\* A TLS document built for {ech_enabled: false} alone is the baseline document
C36_WitnessDisabled ==
    /\ phase = "built"
    /\ Overrides = ("ech_enabled" :> FALSE)
    /\ "tlsSettings" \in DOMAIN Stream
    /\ Generated = build_xray_json(base_config, <<>>, SOCKS_PORT)

\* C37: at every point of a probe, and in what it returns, a result with
\* success = true has an empty error.
C37_SuccessHasNoError ==
    (phase = "probe" /\ pc[1] \notin {"queued", "raised"}) =>
       (result[1].success => result[1].error = "")

\* ------------------------------------------------------------------ C38
\* The tasks of the batch that have left the semaphore's queue.
StartedTasks == {i \in BatchTasks : pc[i] # "queued"}

BatchBlockedOrEmpty ==
    /\ (concurrency = 0 /\ Len(tests) >= 1) =>
          /\ StartedTasks = {}
          /\ port_counter = 0
          /\ \A p \in Ports : files[p] = 0
          /\ batch = "running"
          /\ ~ENABLED Next
          /\ results = <<>> /\ calls = <<>>
    /\ Len(tests) = 0 =>
          /\ results = <<>> /\ calls = <<>> /\ completed = 0
          /\ port_counter = 0
          /\ batch \in {"running", "returned"}
          /\ batch = "running" => ENABLED BatchReturn

\* C38: with a concurrency limit of 0 and at least one document run_batch
\* starts no probe (no task leaves the semaphore's queue, no port is
\* acquired, no file written), reports nothing and never returns: no step is
\* possible at all.  With an empty document list the only step run_batch can
\* take is its return, with an empty result list and no on_result call, for
\* every concurrency limit from 0 upwards.
C38_ZeroSlotsBlockEmptyListReturns ==
    /\ []BatchBlockedOrEmpty
    /\ [][Len(tests) = 0 => (batch' = "returned" /\ results' = <<>> /\ calls' = <<>>)]_vars

C38_Witness ==
    /\ concurrency = 0
    /\ Len(tests) = MaxDocs
    /\ \A i \in BatchTasks : pc[i] = "queued"
    /\ batch = "running"

C38_WitnessEmpty ==
    /\ Len(tests) = 0
    /\ concurrency = 0
    /\ batch = "returned"
    /\ results = <<>>

\* ------------------------------------------------------------------ C39
\* A group name that is neither a key of PARAM_GROUPS nor of PARAM_SPACE
UnknownGroup(g) == g \notin DOMAIN PARAM_GROUPS /\ g \notin DOMAIN PARAM_SPACE

UnknownRequested == {param_groups[n] : n \in 1 .. Len(param_groups)} \cap
                    {g \in {"nosuch", "fragment"} : UnknownGroup(g)}

RemainingGroups == SelectSeq(param_groups, LAMBDA g : ~UnknownGroup(g))

CaseKeys(cases) == UNION {DOMAIN cases[n].overrides : n \in 1 .. Len(cases)}

\* C39: a requested group name that is neither a known group nor a dimension
\* key adds no case to the sweep list and no dimension to the full grid, and
\* gets no entry in winners: the sweep list, the full grid and the winners
\* are those of the request without that name, and every one of them is
\* produced (nothing is raised on the way).
C39_UnknownGroupContributesNothing ==
    /\ phase = "grid_cases" =>
          /\ grid = generate_smart_grid(RemainingGroups)
          /\ CaseKeys(grid) \cap UnknownRequested = {}
    /\ phase = "grid_full" =>
          /\ grid = generate_full_grid(RemainingGroups)
          /\ CaseKeys(grid) \cap UnknownRequested = {}
          /\ Len(grid) >= 1
    /\ phase \in {"grid_winners", "grid_combos"} =>
          /\ winners = ExtractWinners(RemainingGroups, sweep_results)
          /\ \A n \in 1 .. Len(winners) : winners[n].group \notin UnknownRequested
    /\ phase = "grid_results" =>
          \A n \in 1 .. Len(sweep_results) :
             DOMAIN sweep_results[n].params \cap UnknownRequested = {}

C39_Witness ==
    /\ phase = "grid_winners"
    /\ param_groups = <<"alpn", "nosuch", "mptcp">>
    /\ Len(winners) = 2
    /\ Len(sweep_results) = Len(PARAM_SPACE.alpn) + Len(PARAM_SPACE.mptcp)

C39_WitnessFull ==
    /\ phase = "grid_full"
    /\ param_groups = QUICK_GROUPS
    /\ UnknownRequested = {"fragment"}
    /\ Len(grid) = Len(PARAM_SPACE.fingerprint) * Len(PARAM_SPACE.alpn)

C39_WitnessOnlyUnknown ==
    /\ phase = "grid_combos"
    /\ param_groups = <<"nosuch">>
    /\ sweep_results = <<>>
    /\ winners = <<>>
    /\ grid = <<>>

\* ------------------------------------------------------------------ C40
\* The on_result calls that report a baseline result
BaselineReports == {n \in 1 .. Len(calls) : calls[n].result.params = <<>>}

\* C40: the baseline probe of smart search (its first probe) never is at the
\* throughput request, whatever measure_speed the search was called with, and
\* its result always has speed_mbps = -1; once test_base_config has returned
\* the result has been reported through on_result exactly once, as the first
\* call, with completed = 1 and total = 1, and before that not at all.
C40_BaselineSkipsThroughput ==
    (phase # "entry" /\ Len(kind) >= 1) =>
       /\ kind[1] = "baseline"
       /\ \A i \in 2 .. Len(kind) : kind[i] # "baseline"
       /\ pc[1] # "speed"
       /\ ~MeasureSpeed(1)
       /\ result[1] # <<>> => result[1].speed_mbps = -1
       /\ pc[1] = "done" =>
             /\ BaselineReports = {1}
             /\ calls[1].result = result[1]
             /\ calls[1].completed = 1
             /\ calls[1].total = 1
             /\ all_results[1] = result[1]
             /\ all_results[1].speed_mbps = -1
       /\ pc[1] # "done" => calls = <<>>

\* A search called with measure_speed has returned: the baseline succeeded
\* with no throughput, a sweep probe measured one.
C40_Witness ==
    /\ phase = "returned"
    /\ measure_speed
    /\ pc[1] = "done"
    /\ result[1].success
    /\ result[1].speed_mbps = -1
    /\ calls[1].completed = 1 /\ calls[1].total = 1
    /\ \E i \in 2 .. Len(result) : result[i] # <<>> /\ result[i].speed_mbps >= 0

====
